---- MODULE Spec2Model ----
(***************************************************************************)
(* A model of pkg/kubectl/resource/builder.go: the Builder that            *)
(* accumulates command line input (paths, URLs, streams, resource types,   *)
(* names, type/name tuples, selectors, flags) and the evaluation (Do /     *)
(* visitorResult) that classifies the accumulated state into one mode and  *)
(* builds a Result.                                                        *)
(*                                                                         *)
(* Argument strings are sequences of tokens: a token is either one of the  *)
(* separators "," and "/" or a word (a non-empty run of characters that    *)
(* holds no separator).  The empty string is the empty sequence.           *)
(***************************************************************************)
EXTENDS Naturals, Sequences, FiniteSets, TLC

VARIABLES
    b,        \* the Builder
    result,   \* the Result of the last Do, when no call was made since
    log,      \* what that evaluation asked of registry, client mapper, server
    pre,      \* the Builder as that Do found it
    ncalls,   \* the number of configuration calls made
    calls,    \* the configuration calls made, when they are recorded
    track,    \* whether the calls are recorded
    walk,     \* the walk over the visitor of that Result, once made
    split     \* an argument given to SplitResourceArgument and what it returned

vars == <<b, result, log, pre, ncalls, calls, track, walk, split>>

(***************************************************************************)
(* Bounds.                                                                 *)
(***************************************************************************)
\* number of configuration calls made on one Builder
MaxCalls == 2
\* number of configuration calls made on one Builder whose calls are
\* recorded
MaxHist == 2
\* number of sources that fail to produce their items during one walk
MaxBad == 1
\* number of calls made on one Builder that is given selectors
MaxSelectCalls == 4
\* length of the argument given to SplitResourceArgument
MaxArgLen == 5
\* length of an argument given to ResourceTypeOrNameArgs
MaxTupleArgLen == 5

(***************************************************************************)
(* Strings.                                                                *)
(***************************************************************************)
Comma == ","
Slash == "/"

\* strings.Split(s, sep) for a one-token separator: the segments between
\* the separators, the empty string giving one empty segment.
RECURSIVE Split(_, _)
Split(s, sep) ==
    IF \A i \in 1..Len(s) : s[i] # sep
    THEN <<s>>
    ELSE LET k == CHOOSE i \in 1..Len(s) :
                     /\ s[i] = sep
                     /\ \A j \in 1..(i - 1) : s[j] # sep
         IN <<SubSeq(s, 1, k - 1)>> \o Split(SubSeq(s, k + 1, Len(s)), sep)

\* strings.Contains(s, sep) for a one-token separator
Contains(s, sep) == \E i \in 1..Len(s) : s[i] = sep

\* strings.Join(parts, sep)
RECURSIVE Join(_, _)
Join(parts, sep) ==
    IF parts = <<>> THEN <<>>
    ELSE IF Len(parts) = 1 THEN parts[1]
    ELSE parts[1] \o <<sep>> \o Join(Tail(parts), sep)

\* the elements of a sequence
Range(s) == {s[i] : i \in 1..Len(s)}

\* the loop of SplitResourceArgument remembering only the last string
RECURSIVE dedupAdjacent(_, _, _)
dedupAdjacent(segs, set, out) ==
    IF segs = <<>> THEN out
    ELSE IF Head(segs) \in set
         THEN dedupAdjacent(Tail(segs), set, out)
         ELSE dedupAdjacent(Tail(segs), {Head(segs)}, Append(out, Head(segs)))

\* SplitResourceArgument splits the argument with commas and returns unique
\* strings in the original order.
RECURSIVE dedup(_, _, _)
dedup(segs, set, out) ==
    IF segs = <<>> THEN out
    ELSE IF Head(segs) \in set
         THEN dedup(Tail(segs), set, out)
         ELSE dedup(Tail(segs), set \cup {Head(segs)}, Append(out, Head(segs)))

SplitResourceArgument(arg) == dedup(Split(arg, Comma), {}, <<>>)

(***************************************************************************)
(* Errors.  An error is a message and the values formatted into it.        *)
(***************************************************************************)
Err(msg, arg) == [msg |-> msg, arg |-> arg]

NoError == Err("", <<>>)

\* the error of a Result: nil, one error, or an aggregate of several
NilErr == [kind |-> "nil", errs |-> <<>>]

Single(e) == [kind |-> "error", errs |-> <<e>>]

\* errors.NewAggregate: nil for an empty list, else the list in its order
NewAggregate(errlist) ==
    IF errlist = <<>> THEN NilErr ELSE [kind |-> "aggregate", errs |-> errlist]

(***************************************************************************)
(* The type registry and the client mapper handed to NewBuilder.           *)
(***************************************************************************)
\* Mapper.AliasesForResource: a multi-valued alias and what it expands to
AliasesForResource(arg) ==
    IF arg = <<"all">>
    THEN [ok |-> TRUE, aliases |-> << <<"pods">>, <<"nodes">> >>]
    ELSE [ok |-> FALSE, aliases |-> <<>>]

\* Mapper.VersionAndKindForResource: "po" is a short name of "pods";
\* "ghost" has a kind but no REST mapping; anything else is unknown.
VersionAndKindForResource(r) ==
    IF r \in {<<"pods">>, <<"po">>}
    THEN [ok |-> TRUE, version |-> "v1", kind |-> "Pod", err |-> NoError]
    ELSE IF r = <<"nodes">>
    THEN [ok |-> TRUE, version |-> "v1", kind |-> "Node", err |-> NoError]
    ELSE IF r = <<"ghost">>
    THEN [ok |-> TRUE, version |-> "v1", kind |-> "Ghost", err |-> NoError]
    ELSE [ok |-> FALSE, version |-> "", kind |-> "",
          err |-> Err("no resource has been defined", r)]

NoMapping == [APIVersion |-> "", Kind |-> "", Resource |-> <<>>, Scope |-> ""]

\* Mapper.RESTMapping: the canonical resource name and the scope of a kind
RESTMapping(kind, version) ==
    IF kind = "Pod"
    THEN [ok |-> TRUE, err |-> NoError,
          mapping |-> [APIVersion |-> version, Kind |-> kind,
                       Resource |-> <<"pods">>, Scope |-> "namespace"]]
    ELSE IF kind = "Node"
    THEN [ok |-> TRUE, err |-> NoError,
          mapping |-> [APIVersion |-> version, Kind |-> kind,
                       Resource |-> <<"nodes">>, Scope |-> "root"]]
    ELSE [ok |-> FALSE, mapping |-> NoMapping,
          err |-> Err("no object named is registered", <<kind>>)]

RESTScopeNameNamespace == "namespace"

\* fmt.Sprintf("%s/%s", mapping.APIVersion, mapping.Resource)
ClientKey(mapping) == <<mapping.APIVersion>> \o <<Slash>> \o mapping.Resource

\* the keys a client can be asked for
ClientKeys == {<<"v1", Slash, "pods">>, <<"v1", Slash, "nodes">>}

\* the strings that can be keys of a tuple mapping table
TableKeys == {<<"pods">>, <<"po">>, <<"nodes">>}

(***************************************************************************)
(* The file system and the URL parser behind FilenameParam and Path.       *)
(***************************************************************************)
Files == {"f.json", "g.json", "h.json"}
Dirs == {"d"}
Missing == {"missing"}
Denied == {"denied"}
GoodURLs == {"http://u"}
BadURLs == {"http://%zz"}

PathStrings == {"f.json"} \cup Dirs \cup Missing \cup Denied
FilenameStrings == {"-"} \cup GoodURLs \cup BadURLs \cup PathStrings

\* os.Stat
Stat(p) ==
    IF p \in Files THEN [err |-> "nil", isDir |-> FALSE]
    ELSE IF p \in Dirs THEN [err |-> "nil", isDir |-> TRUE]
    ELSE IF p \in Missing THEN [err |-> "notexist", isDir |-> FALSE]
    ELSE [err |-> "other", isDir |-> FALSE]

\* strings.Index(s, "http://") == 0 || strings.Index(s, "https://") == 0
HasHTTPPrefix(s) == s \in GoodURLs \cup BadURLs

\* url.Parse
URLParse(s) == [ok |-> s \in GoodURLs, url |-> [raw |-> s]]

(***************************************************************************)
(* Selectors.                                                              *)
(***************************************************************************)
NilSelector == [isNil |-> TRUE, reqs |-> {}]

\* labels.Everything()
Everything == [isNil |-> FALSE, reqs |-> {}]

SelectorStrings == {"", "a=b", "a=="}

\* labels.Parse: the empty string parses to the selector without
\* requirements
LabelsParse(s) ==
    IF s = "" THEN [ok |-> TRUE, selector |-> Everything]
    ELSE IF s = "a=b"
    THEN [ok |-> TRUE, selector |-> [isNil |-> FALSE, reqs |-> {<<"a", "b">>}]]
    ELSE [ok |-> FALSE, selector |-> NilSelector]

\* Selector.Empty()
Empty(sel) == sel.reqs = {}

(***************************************************************************)
(* The Builder and its configuration methods.  Each method is an operator  *)
(* from the Builder before the call to the Builder after it.               *)
(***************************************************************************)
NewBuilder ==
    [errs |-> <<>>, paths |-> <<>>, stream |-> FALSE, dir |-> FALSE,
     selector |-> NilSelector, selectAll |-> FALSE, resources |-> <<>>,
     namespace |-> "", names |-> <<>>, resourceTuples |-> <<>>,
     defaultNamespace |-> FALSE, requireNamespace |-> FALSE,
     flatten |-> FALSE, latest |-> FALSE,
     singleResourceType |-> FALSE, continueOnError |-> FALSE]

\* the visitors of path sources; a URLVisitor has no IgnoreErrors field
URLVisitor(u) == [kind |-> "URLVisitor", arg |-> u.raw, IgnoreErrors |-> FALSE]

NewStreamVisitor(name, ignoreErrors) ==
    [kind |-> "StreamVisitor", arg |-> name, IgnoreErrors |-> ignoreErrors]

DirectoryVisitor(p, ignoreErrors) ==
    [kind |-> "DirectoryVisitor", arg |-> p, IgnoreErrors |-> ignoreErrors]

PathVisitor(p, ignoreErrors) ==
    [kind |-> "PathVisitor", arg |-> p, IgnoreErrors |-> ignoreErrors]

\* URL accepts a number of URLs directly.
RECURSIVE URL(_, _)
URL(bb, urls) ==
    IF urls = <<>> THEN bb
    ELSE URL([bb EXCEPT !.paths = Append(@, URLVisitor(Head(urls)))], Tail(urls))

\* Stream not marking the Builder as holding a stream
StreamUnmarked(bb, name) ==
    [bb EXCEPT !.paths = Append(@, NewStreamVisitor(name, bb.continueOnError))]

\* Stream will read objects from the provided reader.
Stream(bb, name) ==
    [bb EXCEPT !.stream = TRUE,
               !.paths = Append(@, NewStreamVisitor(name, bb.continueOnError))]

\* Stdin will read objects from the standard input.
Stdin(bb) == Stream(bb, "STDIN")

\* Path giving its visitors no instruction to ignore errors
RECURSIVE PathNeverIgnores(_, _)
PathNeverIgnores(bb, paths) ==
    IF paths = <<>> THEN bb
    ELSE LET p == Head(paths)
             i == Stat(p)
         IN IF i.err # "nil"
            THEN PathNeverIgnores(
                     [bb EXCEPT !.errs = Append(@, Err("the path does not exist", <<p>>))],
                     Tail(paths))
            ELSE IF i.isDir
            THEN PathNeverIgnores(
                     [bb EXCEPT !.dir = TRUE,
                                !.paths = Append(@, DirectoryVisitor(p, FALSE))],
                     Tail(paths))
            ELSE PathNeverIgnores(
                     [bb EXCEPT !.paths = Append(@, PathVisitor(p, FALSE))],
                     Tail(paths))

\* Path is a set of filesystem paths.
RECURSIVE Path(_, _)
Path(bb, paths) ==
    IF paths = <<>> THEN bb
    ELSE LET p == Head(paths)
             i == Stat(p)
         IN IF i.err = "notexist"
            THEN Path([bb EXCEPT !.errs =
                          Append(@, Err("the path does not exist", <<p>>))],
                      Tail(paths))
            ELSE IF i.err # "nil"
            THEN Path([bb EXCEPT !.errs =
                          Append(@, Err("the path cannot be accessed", <<p>>))],
                      Tail(paths))
            ELSE IF i.isDir
            THEN Path([bb EXCEPT !.dir = TRUE,
                                 !.paths = Append(@, DirectoryVisitor(p, bb.continueOnError))],
                      Tail(paths))
            ELSE Path([bb EXCEPT !.paths = Append(@, PathVisitor(p, bb.continueOnError))],
                      Tail(paths))

\* FilenameParam: URLs, the "-" argument indicating STDIN, or paths.
RECURSIVE FilenameParam(_, _)
FilenameParam(bb, paths) ==
    IF paths = <<>> THEN bb
    ELSE LET s == Head(paths)
         IN IF s = "-"
            THEN FilenameParam(Stdin(bb), Tail(paths))
            ELSE IF HasHTTPPrefix(s)
            THEN LET u == URLParse(s)
                 IN IF ~u.ok
                    THEN FilenameParam(
                             [bb EXCEPT !.errs = Append(@,
                                 Err("the URL passed to filename is not valid", <<s>>))],
                             Tail(paths))
                    ELSE FilenameParam(URL(bb, <<u.url>>), Tail(paths))
            ELSE FilenameParam(Path(bb, <<s>>), Tail(paths))

\* ResourceTypes storing the types in place of those given before
ResourceTypesReplaced(bb, types) == [bb EXCEPT !.resources = types]

\* ResourceTypes is a list of types of resources to operate on.
ResourceTypes(bb, types) == [bb EXCEPT !.resources = @ \o types]

\* Selector accepts a selector directly.
Selector(bb, selector) == [bb EXCEPT !.selector = selector]

\* SelectorParam defines a selector that should be applied to the object
\* types to load.
SelectorParam(bb, s) ==
    LET parsed == LabelsParse(s)
    IN IF ~parsed.ok
       THEN [bb EXCEPT !.errs = Append(@,
                Err("the provided selector is not valid", <<s>>))]
       ELSE IF Empty(parsed.selector)
       THEN bb
       ELSE IF bb.selectAll
       THEN [bb EXCEPT !.errs = Append(@,
                Err("found non empty selector with previously set 'all' parameter", <<s>>))]
       ELSE Selector(bb, parsed.selector)

NamespaceParam(bb, namespace) == [bb EXCEPT !.namespace = namespace]

DefaultNamespace(bb) == [bb EXCEPT !.defaultNamespace = TRUE]

RequireNamespace(bb) == [bb EXCEPT !.requireNamespace = TRUE]

\* SelectAllParam not looking at the selector
SelectAllParamUnchecked(bb, selectAll) == [bb EXCEPT !.selectAll = selectAll]

SelectAllParam(bb, selectAll) ==
    IF selectAll /\ ~bb.selector.isNil
    THEN [bb EXCEPT !.errs = Append(@,
             Err("setting 'all' parameter but found a non empty selector", <<>>))]
    ELSE [bb EXCEPT !.selectAll = selectAll]

Flatten(bb) == [bb EXCEPT !.flatten = TRUE]

Latest(bb) == [bb EXCEPT !.latest = TRUE]

ContinueOnError(bb) == [bb EXCEPT !.continueOnError = TRUE]

SingleResourceType(bb) == [bb EXCEPT !.singleResourceType = TRUE]

\* replaceAliases: an argument that is an alias becomes the comma join of
\* what it stands for
RECURSIVE replaceAliases(_)
replaceAliases(args) ==
    IF args = <<>> THEN <<>>
    ELSE LET a == AliasesForResource(Head(args))
             arg == IF a.ok THEN Join(a.aliases, Comma) ELSE Head(args)
         IN <<arg>> \o replaceAliases(Tail(args))

\* hasCombinedTypeArgs: whether the arguments are in resource/name form,
\* and the error when only some of them are
hasCombinedTypeArgs(args) ==
    LET hasSlash == Cardinality({i \in 1..Len(args) : Contains(args[i], Slash)})
    IN IF hasSlash > 0 /\ hasSlash = Len(args)
       THEN [ok |-> TRUE, err |-> NoError]
       ELSE IF hasSlash > 0 /\ hasSlash # Len(args)
       THEN [ok |-> TRUE,
             err |-> Err("when passing arguments in resource/name form, all arguments must include the resource", <<>>)]
       ELSE [ok |-> FALSE, err |-> NoError]

ResourceTuple(resource, name) == [Resource |-> resource, Name |-> name]

\* the loop of ResourceTypeOrNameArgs over arguments in resource/name form:
\* it returns at the first malformed argument, keeping the tuples appended
\* before it
RECURSIVE combinedArgs(_, _)
combinedArgs(bb, args) ==
    IF args = <<>> THEN bb
    ELSE LET seg == Split(Head(args), Slash)
         IN IF Len(seg) # 2
            THEN [bb EXCEPT !.errs = Append(@,
                     Err("arguments in resource/name form may not have more than one slash", <<>>))]
            ELSE LET resource == seg[1]
                     name == seg[2]
                 IN IF \/ Len(resource) = 0
                       \/ Len(name) = 0
                       \/ Len(SplitResourceArgument(resource)) # 1
                    THEN [bb EXCEPT !.errs = Append(@,
                             Err("arguments in resource/name form must have a single resource and name", <<>>))]
                    ELSE combinedArgs(
                             [bb EXCEPT !.resourceTuples =
                                 Append(@, ResourceTuple(resource, name))],
                             Tail(args))

\* ResourceTypeOrNameArgs accepts arguments of the form
\* (<type1>[,<type2>,...]|<type> <name1>[,<name2>,...]) or type/name.
ResourceTypeOrNameArgs(bb, allowEmptySelector, rawArgs) ==
    LET args == replaceAliases(rawArgs)
        combined == hasCombinedTypeArgs(args)
    IN IF combined.ok
       THEN IF combined.err # NoError
            THEN [bb EXCEPT !.errs = Append(@, combined.err)]
            ELSE combinedArgs(bb, args)
       ELSE IF Len(args) > 2
       THEN ResourceTypes([bb EXCEPT !.names = @ \o Tail(args)],
                          SplitResourceArgument(args[1]))
       ELSE IF Len(args) = 2
       THEN ResourceTypes([bb EXCEPT !.names = Append(@, args[2])],
                          SplitResourceArgument(args[1]))
       ELSE IF Len(args) = 1
       THEN LET b1 == ResourceTypes(bb, SplitResourceArgument(args[1]))
            IN IF b1.selector.isNil /\ allowEmptySelector
               THEN [b1 EXCEPT !.selector = Everything]
               ELSE b1
       ELSE bb

\* ResourceTypeAndNameArgs expects two arguments, a resource type, and a
\* resource name.
ResourceTypeAndNameArgs(bb, args) ==
    IF Len(args) = 2
    THEN ResourceTypes([bb EXCEPT !.names = Append(@, args[2])],
                       SplitResourceArgument(args[1]))
    ELSE IF Len(args) = 0
    THEN bb
    ELSE [bb EXCEPT !.errs = Append(@,
             Err("when passing arguments, must be resource and name", <<>>))]

(***************************************************************************)
(* Evaluation.  What the registry, the client mapper and the server answer *)
(* during one evaluation is its environment env:                           *)
(*   clientFail  the client keys for which ClientForMapping fails          *)
(*   getFail     the names for which Info.Get fails                        *)
(*   order       the order in which Go ranges over the tuple mapping table *)
(* An evaluation yields the Result and a record of what it asked for:      *)
(*   resolved    the strings passed to VersionAndKindForResource           *)
(*   clientReqs  the ClientForMapping calls and whether each succeeded     *)
(*   gets        the Info.Get calls and whether each succeeded             *)
(***************************************************************************)
NilVisitor == [list |-> "nil", stages |-> <<>>]

\* VisitorList(visitors) / EagerVisitorList(visitors)
ListVisitor(continueOnError) ==
    [list |-> IF continueOnError THEN "EagerVisitorList" ELSE "VisitorList",
     stages |-> <<>>]

\* a decorator or flattener wrapped around a visitor
Wrap(visitor, stage) == [visitor EXCEPT !.stages = Append(@, stage)]

\* &Result{singular: ..., err: ...}
ErrResult(singular, e) ==
    [singular |-> singular, err |-> Single(e), visitor |-> NilVisitor,
     sources |-> <<>>]

\* &Result{singular: ..., visitor: ..., sources: ...}
OkResult(singular, visitor, sources) ==
    [singular |-> singular, err |-> NilErr, visitor |-> visitor,
     sources |-> sources]

NoClient == [id |-> 0, key |-> <<>>]

\* Mapper.ClientForMapping: every successful call hands out a new client
ClientForMapping(mapping, env, reqs) ==
    IF ClientKey(mapping) \in env.clientFail
    THEN [ok |-> FALSE, client |-> NoClient,
          err |-> Err("could not create a client", ClientKey(mapping)),
          reqs |-> Append(reqs, [key |-> ClientKey(mapping), ok |-> FALSE])]
    ELSE [ok |-> TRUE, client |-> [id |-> Len(reqs) + 1, key |-> ClientKey(mapping)],
          err |-> NoError,
          reqs |-> Append(reqs, [key |-> ClientKey(mapping), ok |-> TRUE])]

\* NewInfo(client, mapping, namespace, name)
NewInfo(client, mapping, namespace, name) ==
    [kind |-> "Info", client |-> client, mapping |-> mapping,
     namespace |-> namespace, name |-> name, fetched |-> FALSE]

\* NewSelector(client, mapping, namespace, selector)
NewSelector(client, mapping, namespace, selector) ==
    [kind |-> "Selector", client |-> client, mapping |-> mapping,
     namespace |-> namespace, selector |-> selector]

\* mappingsLoop dropping the errors of the registry
RECURSIVE mappingsLoopUnchecked(_, _, _)
mappingsLoopUnchecked(resources, mappings, resolved) ==
    IF resources = <<>>
    THEN [err |-> NoError, mappings |-> mappings, resolved |-> resolved]
    ELSE LET r == Head(resources)
             vk == VersionAndKindForResource(r)
             rm == RESTMapping(vk.kind, vk.version)
         IN mappingsLoopUnchecked(Tail(resources), Append(mappings, rm.mapping),
                                  Append(resolved, r))

\* the loop of resourceMappings over b.resources
RECURSIVE mappingsLoop(_, _, _)
mappingsLoop(resources, mappings, resolved) ==
    IF resources = <<>>
    THEN [err |-> NoError, mappings |-> mappings, resolved |-> resolved]
    ELSE LET r == Head(resources)
             vk == VersionAndKindForResource(r)
             rm == RESTMapping(vk.kind, vk.version)
         IN IF ~vk.ok
            THEN [err |-> vk.err, mappings |-> <<>>, resolved |-> Append(resolved, r)]
            ELSE IF ~rm.ok
            THEN [err |-> rm.err, mappings |-> <<>>, resolved |-> Append(resolved, r)]
            ELSE mappingsLoop(Tail(resources), Append(mappings, rm.mapping),
                              Append(resolved, r))

resourceMappings(bb) ==
    IF Len(bb.resources) > 1 /\ bb.singleResourceType
    THEN [err |-> Err("you may only specify a single resource type", <<>>),
          mappings |-> <<>>, resolved |-> <<>>]
    ELSE mappingsLoop(bb.resources, <<>>, <<>>)

\* the loop of resourceTupleMappings over b.resourceTuples; mappings is the
\* table from resource strings to mappings
RECURSIVE tupleMappingsLoop(_, _, _, _)
tupleMappingsLoop(tuples, mappings, canonical, resolved) ==
    IF tuples = <<>>
    THEN [err |-> NoError, mappings |-> mappings, canonical |-> canonical,
          resolved |-> resolved]
    ELSE LET r == Head(tuples)
             vk == VersionAndKindForResource(r.Resource)
             rm == RESTMapping(vk.kind, vk.version)
         IN IF r.Resource \in DOMAIN mappings
            THEN tupleMappingsLoop(Tail(tuples), mappings, canonical, resolved)
            ELSE IF ~vk.ok
            THEN [err |-> vk.err, mappings |-> <<>>, canonical |-> canonical,
                  resolved |-> Append(resolved, r.Resource)]
            ELSE IF ~rm.ok
            THEN [err |-> rm.err, mappings |-> <<>>, canonical |-> canonical,
                  resolved |-> Append(resolved, r.Resource)]
            ELSE tupleMappingsLoop(
                     Tail(tuples),
                     (r.Resource :> rm.mapping) @@ (rm.mapping.Resource :> rm.mapping) @@ mappings,
                     canonical \cup {rm.mapping.Resource},
                     Append(resolved, r.Resource))

resourceTupleMappings(bb) ==
    LET l == tupleMappingsLoop(bb.resourceTuples, <<>>, {}, <<>>)
    IN IF l.err # NoError
       THEN [err |-> l.err, mappings |-> <<>>, resolved |-> l.resolved]
       ELSE IF Cardinality(l.canonical) > 1 /\ bb.singleResourceType
       THEN [err |-> Err("you may only specify a single resource type", <<>>),
             mappings |-> <<>>, resolved |-> l.resolved]
       ELSE [err |-> NoError, mappings |-> l.mappings, resolved |-> l.resolved]

\* selectorLoop giving every visitor the configured namespace, whatever
\* the scope of its mapping
RECURSIVE selectorLoopKeepNamespace(_, _, _, _, _)
selectorLoopKeepNamespace(bb, mappings, env, visitors, reqs) ==
    IF mappings = <<>>
    THEN [err |-> NoError, visitors |-> visitors, reqs |-> reqs]
    ELSE LET mapping == Head(mappings)
             c == ClientForMapping(mapping, env, reqs)
         IN IF ~c.ok
            THEN [err |-> c.err, visitors |-> <<>>, reqs |-> c.reqs]
            ELSE selectorLoopKeepNamespace(bb, Tail(mappings), env,
                     Append(visitors,
                            NewSelector(c.client, mapping, bb.namespace, bb.selector)),
                     c.reqs)

\* the loop of the selector branch over the resolved mappings
RECURSIVE selectorLoop(_, _, _, _, _)
selectorLoop(bb, mappings, env, visitors, reqs) ==
    IF mappings = <<>>
    THEN [err |-> NoError, visitors |-> visitors, reqs |-> reqs]
    ELSE LET mapping == Head(mappings)
             c == ClientForMapping(mapping, env, reqs)
             selectorNamespace ==
                 IF mapping.Scope # RESTScopeNameNamespace THEN "" ELSE bb.namespace
         IN IF ~c.ok
            THEN [err |-> c.err, visitors |-> <<>>, reqs |-> c.reqs]
            ELSE selectorLoop(bb, Tail(mappings), env,
                     Append(visitors,
                            NewSelector(c.client, mapping, selectorNamespace, bb.selector)),
                     c.reqs)

\* the keys of the mapping table in the order the range statement yields
\* them
RangeOrder(mappings, order) ==
    SelectSeq(order, LAMBDA k : k \in DOMAIN mappings)

\* clientsLoop asking for a client for every entry of the table
RECURSIVE clientsLoopNoReuse(_, _, _, _, _)
clientsLoopNoReuse(keys, mappings, env, clients, reqs) ==
    IF keys = <<>>
    THEN [err |-> NoError, clients |-> clients, reqs |-> reqs]
    ELSE LET mapping == mappings[Head(keys)]
             s == ClientKey(mapping)
             c == ClientForMapping(mapping, env, reqs)
         IN IF ~c.ok
            THEN [err |-> c.err, clients |-> <<>>, reqs |-> c.reqs]
            ELSE clientsLoopNoReuse(Tail(keys), mappings, env,
                                    (s :> c.client) @@ clients, c.reqs)

\* the loop of the tuple branch that retrieves one client for each resource
RECURSIVE clientsLoop(_, _, _, _, _)
clientsLoop(keys, mappings, env, clients, reqs) ==
    IF keys = <<>>
    THEN [err |-> NoError, clients |-> clients, reqs |-> reqs]
    ELSE LET mapping == mappings[Head(keys)]
             s == ClientKey(mapping)
             c == ClientForMapping(mapping, env, reqs)
         IN IF s \in DOMAIN clients
            THEN clientsLoop(Tail(keys), mappings, env, clients, reqs)
            ELSE IF ~c.ok
            THEN [err |-> c.err, clients |-> <<>>, reqs |-> c.reqs]
            ELSE clientsLoop(Tail(keys), mappings, env,
                             (s :> c.client) @@ clients, c.reqs)

\* itemsLoop giving every Info the configured namespace, whatever the scope
RECURSIVE itemsLoopKeepNamespace(_, _, _, _, _)
itemsLoopKeepNamespace(bb, tuples, mappings, clients, items) ==
    IF tuples = <<>>
    THEN [err |-> NoError, items |-> items]
    ELSE LET tuple == Head(tuples)
             mapping == mappings[tuple.Resource]
         IN IF mapping.Scope = RESTScopeNameNamespace /\ Len(bb.namespace) = 0
            THEN [err |-> Err("namespace may not be empty when retrieving a resource by name", <<>>),
                  items |-> <<>>]
            ELSE itemsLoopKeepNamespace(bb, Tail(tuples), mappings, clients,
                     Append(items,
                            NewInfo(clients[ClientKey(mapping)], mapping,
                                    bb.namespace, tuple.Name)))

\* the loop of the tuple branch that builds one Info per tuple
RECURSIVE itemsLoop(_, _, _, _, _)
itemsLoop(bb, tuples, mappings, clients, items) ==
    IF tuples = <<>>
    THEN [err |-> NoError, items |-> items]
    ELSE LET tuple == Head(tuples)
             mapping == mappings[tuple.Resource]
             s == ClientKey(mapping)
             selectorNamespace ==
                 IF mapping.Scope # RESTScopeNameNamespace THEN "" ELSE bb.namespace
         IN IF tuple.Resource \notin DOMAIN mappings
            THEN [err |-> Err("resource is not recognized", tuple.Resource),
                  items |-> <<>>]
            ELSE IF s \notin DOMAIN clients
            THEN [err |-> Err("could not find a client for resource", tuple.Resource),
                  items |-> <<>>]
            ELSE IF mapping.Scope = RESTScopeNameNamespace /\ Len(bb.namespace) = 0
            THEN [err |-> Err("namespace may not be empty when retrieving a resource by name", <<>>),
                  items |-> <<>>]
            ELSE itemsLoop(bb, Tail(tuples), mappings, clients,
                     Append(items,
                            NewInfo(clients[s], mapping, selectorNamespace, tuple.Name)))

\* Info.Get: the server's answer for a name
InfoGet(info, env) ==
    IF info.name \in env.getFail
    THEN [ok |-> FALSE, err |-> Err("not found", info.name), info |-> info]
    ELSE [ok |-> TRUE, err |-> NoError, info |-> [info EXCEPT !.fetched = TRUE]]

\* namesLoop going on to the next name after a failed fetch
RECURSIVE namesLoopContinue(_, _, _, _, _, _, _)
namesLoopContinue(names, client, mapping, selectorNamespace, env, visitors, gets) ==
    IF names = <<>>
    THEN [err |-> NoError, visitors |-> visitors, gets |-> gets]
    ELSE LET info == NewInfo(client, mapping, selectorNamespace, Head(names))
             g == InfoGet(info, env)
         IN namesLoopContinue(Tail(names), client, mapping, selectorNamespace, env,
                              IF g.ok THEN Append(visitors, g.info) ELSE visitors,
                              Append(gets, [name |-> Head(names), ok |-> g.ok]))

\* the loop of the name branch that creates and fetches one Info per name
RECURSIVE namesLoop(_, _, _, _, _, _, _)
namesLoop(names, client, mapping, selectorNamespace, env, visitors, gets) ==
    IF names = <<>>
    THEN [err |-> NoError, visitors |-> visitors, gets |-> gets]
    ELSE LET info == NewInfo(client, mapping, selectorNamespace, Head(names))
             g == InfoGet(info, env)
         IN IF ~g.ok
            THEN [err |-> g.err, visitors |-> <<>>,
                  gets |-> Append(gets, [name |-> Head(names), ok |-> FALSE])]
            ELSE namesLoop(Tail(names), client, mapping, selectorNamespace, env,
                           Append(visitors, g.info),
                           Append(gets, [name |-> Head(names), ok |-> TRUE]))

\* what one evaluation returns and did
Eval(res, selector, branch, resolved, reqs, gets) ==
    [res |-> res, selector |-> selector, branch |-> branch,
     resolved |-> resolved, clientReqs |-> reqs, gets |-> gets]

PathsAndArgsMsg ==
    "when paths, URLs, or stdin is provided as input, you may not specify a resource by arguments as well"

\* the checks of the selector branch on what else is configured
selectorConflict(bb) ==
    IF Len(bb.names) # 0
    THEN Err("name cannot be provided when a selector is specified", <<>>)
    ELSE IF Len(bb.resourceTuples) # 0
    THEN Err("selectors and the all flag cannot be used when passing resource/name arguments", <<>>)
    ELSE IF Len(bb.resources) = 0
    THEN Err("at least one resource must be specified to use a selector", <<>>)
    ELSE IF Len(bb.paths) # 0
    THEN IF Empty(bb.selector)
         THEN Err(PathsAndArgsMsg, <<>>)
         ELSE Err("a selector may not be specified when path, URL, or stdin is provided as input", <<>>)
    ELSE NoError

\* visitorResult, the branch "visit selectors"; bb.selector is not nil
selectorBranch(bb, env) ==
    LET conflict == selectorConflict(bb)
        m == resourceMappings(bb)
        l == selectorLoop(bb, m.mappings, env, <<>>, <<>>)
        E(res, resolved, reqs) == Eval(res, bb.selector, "selector", resolved, reqs, <<>>)
    IN IF conflict # NoError
       THEN E(ErrResult(FALSE, conflict), <<>>, <<>>)
       ELSE IF m.err # NoError
       THEN E(ErrResult(FALSE, m.err), m.resolved, <<>>)
       ELSE IF l.err # NoError
       THEN E(ErrResult(FALSE, l.err), m.resolved, l.reqs)
       ELSE E(OkResult(FALSE, ListVisitor(bb.continueOnError), l.visitors),
              m.resolved, l.reqs)

\* tupleConflict without the check for bulk resource types
tupleConflictPathsOnly(bb) ==
    IF Len(bb.paths) # 0 THEN Err(PathsAndArgsMsg, <<>>) ELSE NoError

\* the checks of the tuple branch on what else is configured
tupleConflict(bb) ==
    IF Len(bb.paths) # 0
    THEN Err(PathsAndArgsMsg, <<>>)
    ELSE IF Len(bb.resources) # 0
    THEN Err("you may not specify individual resources and bulk resources in the same call", <<>>)
    ELSE NoError

\* visitorResult, the branch "visit items specified by resource and name"
tupleBranch(bb, env) ==
    LET isSingular == Len(bb.resourceTuples) = 1
        conflict == tupleConflict(bb)
        m == resourceTupleMappings(bb)
        c == clientsLoop(RangeOrder(m.mappings, env.order), m.mappings, env, <<>>, <<>>)
        i == itemsLoop(bb, bb.resourceTuples, m.mappings, c.clients, <<>>)
        E(res, resolved, reqs) == Eval(res, bb.selector, "tuple", resolved, reqs, <<>>)
    IN IF conflict # NoError
       THEN E(ErrResult(isSingular, conflict), <<>>, <<>>)
       ELSE IF m.err # NoError
       THEN E(ErrResult(isSingular, m.err), m.resolved, <<>>)
       ELSE IF c.err # NoError
       THEN E(ErrResult(FALSE, c.err), m.resolved, c.reqs)
       ELSE IF i.err # NoError
       THEN E(ErrResult(isSingular, i.err), m.resolved, c.reqs)
       ELSE E(OkResult(isSingular, ListVisitor(bb.continueOnError), i.items),
              m.resolved, c.reqs)

\* the checks of the name branch on what else is configured
nameConflict(bb) ==
    IF Len(bb.paths) # 0
    THEN Err(PathsAndArgsMsg, <<>>)
    ELSE IF Len(bb.resources) = 0
    THEN Err("you must provide a resource and a resource name together", <<>>)
    ELSE IF Len(bb.resources) > 1
    THEN Err("you must specify only one resource", <<>>)
    ELSE NoError

\* visitorResult, the branch "visit items specified by name"
nameBranch(bb, env) ==
    LET isSingular == Len(bb.names) = 1
        conflict == nameConflict(bb)
        m == resourceMappings(bb)
        mapping == m.mappings[1]
        c == ClientForMapping(mapping, env, <<>>)
        selectorNamespace ==
            IF mapping.Scope # RESTScopeNameNamespace THEN "" ELSE bb.namespace
        n == namesLoop(bb.names, c.client, mapping, selectorNamespace, env, <<>>, <<>>)
        E(res, resolved, reqs, gets) == Eval(res, bb.selector, "name", resolved, reqs, gets)
    IN IF conflict # NoError
       THEN E(ErrResult(isSingular, conflict), <<>>, <<>>, <<>>)
       ELSE IF m.err # NoError
       THEN E(ErrResult(isSingular, m.err), m.resolved, <<>>, <<>>)
       ELSE IF ~c.ok
       THEN E(ErrResult(FALSE, c.err), m.resolved, c.reqs, <<>>)
       ELSE IF mapping.Scope = RESTScopeNameNamespace /\ Len(bb.namespace) = 0
       THEN E(ErrResult(isSingular, Err("namespace may not be empty when retrieving a resource by name", <<>>)),
              m.resolved, c.reqs, <<>>)
       ELSE IF n.err # NoError
       THEN E(ErrResult(isSingular, n.err), m.resolved, c.reqs, n.gets)
       ELSE E(OkResult(isSingular, ListVisitor(FALSE), n.visitors),
              m.resolved, c.reqs, n.gets)

\* pathBranch wrapping the sources in the eager list whatever the flag
pathBranchEager(bb, env) ==
    LET singular == ~bb.dir /\ ~bb.stream /\ Len(bb.paths) = 1
        E(res) == Eval(res, bb.selector, "path", <<>>, <<>>, <<>>)
    IN IF Len(bb.resources) # 0
       THEN E(ErrResult(singular, Err("when paths, URLs, or stdin is provided as input, you may not specify resource arguments as well", <<>>)))
       ELSE E(OkResult(singular, ListVisitor(TRUE), bb.paths))

\* visitorResult, the branch "visit items specified by paths"
pathBranch(bb, env) ==
    LET singular == ~bb.dir /\ ~bb.stream /\ Len(bb.paths) = 1
        visitors == ListVisitor(bb.continueOnError)
        flattened == IF bb.flatten THEN Wrap(visitors, "FlattenListVisitor") ELSE visitors
        decorated == IF bb.latest THEN Wrap(flattened, "RetrieveLatest") ELSE visitors
        E(res) == Eval(res, bb.selector, "path", <<>>, <<>>, <<>>)
    IN IF Len(bb.resources) # 0
       THEN E(ErrResult(singular, Err("when paths, URLs, or stdin is provided as input, you may not specify resource arguments as well", <<>>)))
       ELSE E(OkResult(singular, decorated, bb.paths))

\* visitorResult short-circuiting only on more than one recorded error
visitorResultOffByOne(bb, env) ==
    IF Len(bb.errs) > 1
    THEN Eval([singular |-> FALSE, err |-> NewAggregate(bb.errs),
               visitor |-> NilVisitor, sources |-> <<>>],
              bb.selector, "errs", <<>>, <<>>, <<>>)
    ELSE LET b1 == IF bb.selectAll THEN [bb EXCEPT !.selector = Everything] ELSE bb
         IN IF ~b1.selector.isNil THEN selectorBranch(b1, env)
            ELSE IF Len(b1.resourceTuples) # 0 THEN tupleBranch(b1, env)
            ELSE IF Len(b1.names) # 0 THEN nameBranch(b1, env)
            ELSE IF Len(b1.paths) # 0 THEN pathBranch(b1, env)
            ELSE Eval(ErrResult(FALSE, Err("you must provide one or more resources by argument or filename", <<>>)),
                      b1.selector, "none", <<>>, <<>>, <<>>)

\* visitorResult taking resource types alone for a selection of everything
visitorResultTypesSelect(bb, env) ==
    IF Len(bb.errs) > 0
    THEN Eval([singular |-> FALSE, err |-> NewAggregate(bb.errs),
               visitor |-> NilVisitor, sources |-> <<>>],
              bb.selector, "errs", <<>>, <<>>, <<>>)
    ELSE LET b1 == IF bb.selectAll \/ Len(bb.resources) # 0
                   THEN [bb EXCEPT !.selector = Everything] ELSE bb
         IN IF ~b1.selector.isNil THEN selectorBranch(b1, env)
            ELSE IF Len(b1.resourceTuples) # 0 THEN tupleBranch(b1, env)
            ELSE IF Len(b1.names) # 0 THEN nameBranch(b1, env)
            ELSE IF Len(b1.paths) # 0 THEN pathBranch(b1, env)
            ELSE Eval(ErrResult(FALSE, Err("you must provide one or more resources by argument or filename", <<>>)),
                      b1.selector, "none", <<>>, <<>>, <<>>)

\* visitorResult: the decision tree over the accumulated state.  It stores
\* labels.Everything() in b.selector when selectAll is set.
visitorResult(bb, env) ==
    IF Len(bb.errs) > 0
    THEN Eval([singular |-> FALSE, err |-> NewAggregate(bb.errs),
               visitor |-> NilVisitor, sources |-> <<>>],
              bb.selector, "errs", <<>>, <<>>, <<>>)
    ELSE LET b1 == IF bb.selectAll THEN [bb EXCEPT !.selector = Everything] ELSE bb
         IN IF ~b1.selector.isNil THEN selectorBranch(b1, env)
            ELSE IF Len(b1.resourceTuples) # 0 THEN tupleBranch(b1, env)
            ELSE IF Len(b1.names) # 0 THEN nameBranch(b1, env)
            ELSE IF Len(b1.paths) # 0 THEN pathBranch(b1, env)
            ELSE Eval(ErrResult(FALSE, Err("you must provide one or more resources by argument or filename", <<>>)),
                      b1.selector, "none", <<>>, <<>>, <<>>)

\* Helpers with the namespace filter ahead of the namespace helpers
HelpersFilterFirst(bb) ==
    <<"FilterNamespace">>
    \o (IF bb.defaultNamespace THEN <<"SetNamespace">> ELSE <<>>)
    \o (IF bb.requireNamespace THEN <<"RequireNamespace">> ELSE <<>>)
    \o (IF bb.latest THEN <<"RetrieveLazy">> ELSE <<>>)

\* the helpers Do builds for the decorated visitor, in their order
Helpers(bb) ==
    (IF bb.defaultNamespace THEN <<"SetNamespace">> ELSE <<>>)
    \o (IF bb.requireNamespace THEN <<"RequireNamespace">> ELSE <<>>)
    \o <<"FilterNamespace">>
    \o (IF bb.latest THEN <<"RetrieveLazy">> ELSE <<>>)

\* the stages of NewDecoratedVisitor(visitor, helpers...), one per helper
RECURSIVE Decorate(_, _)
Decorate(visitor, helpers) ==
    IF helpers = <<>> THEN visitor
    ELSE Decorate(Wrap(visitor, Head(helpers)), Tail(helpers))

\* Do returns a Result object with a Visitor for the resources identified
\* by the Builder.
Do(bb, env) ==
    LET decorated(e) ==
            LET r == e.res
                v1 == IF bb.flatten THEN Wrap(r.visitor, "FlattenListVisitor")
                      ELSE r.visitor
            IN IF r.err # NilErr
               THEN e
               ELSE [e EXCEPT !.res.visitor = Decorate(v1, Helpers(bb))]
    IN decorated(visitorResult(bb, env))

(***************************************************************************)
(* The inputs of the configuration calls.                                  *)
(***************************************************************************)
\* the lists of at most one element of S
UpTo1(S) == {<<>>} \cup {<<x>> : x \in S}

\* the lists of one or two elements of S
OneOrTwo(S) == {<<x>> : x \in S} \cup {<<x, y>> : x \in S, y \in S}

\* the lists given to the variadic FilenameParam, Path, URL and
\* ResourceTypes
FilenameLists ==
    UpTo1(FilenameStrings)
    \cup {<<"f.json", "d">>, <<"missing", "f.json">>, <<"http://%zz", "-">>}

PathLists ==
    UpTo1(PathStrings) \cup {<<"missing", "d">>, <<"f.json", "g.json", "h.json">>}

URLLists == OneOrTwo({URLParse(s).url : s \in GoodURLs}) \cup {<<>>}

TypeLists ==
    UpTo1({ <<"pods">>, <<"po">>, <<"nodes">>, <<"ghost">>, <<"bogus">> })
    \cup { << <<"pods">>, <<"po">> >>, << <<"pods">>, <<"nodes">> >>,
           << <<"pods">>, <<"pods">> >> }

TypeArgs ==
    { <<"pods">>, <<"po">>, <<"nodes">>, <<"ghost">>, <<"bogus">>, <<"all">>,
      <<"pods", Comma, "po">>, <<"pods", Comma, "pods">>, <<>> }

NameArgs == { <<"a">>, <<"b">> }

TupleArgs ==
    { <<"pods", Slash, "a">>, <<"po", Slash, "b">>, <<"nodes", Slash, "a">>,
      <<"bogus", Slash, "a">> }

BadTupleArgs ==
    { <<"pods", Slash>>, <<"pods", Slash, "a", Slash, "b">>,
      <<"pods", Comma, "nodes", Slash, "a">> }

\* the argument lists given to ResourceTypeOrNameArgs
ArgLists ==
    {<<>>}
    \cup {<<t>> : t \in TypeArgs}
    \cup {<<t, <<"a">>>> : t \in {<<"pods">>, <<"nodes">>, <<"ghost">>, <<"bogus">>,
                                  <<"pods", Comma, "po">>}}
    \cup {<<<<"pods">>, <<"a">>, <<"b">>>>, <<<<"pods">>, <<"b">>, <<"a">>>>,
          <<<<"nodes">>, <<"a">>, <<"b">>>>}
    \cup OneOrTwo(TupleArgs)
    \cup {<<t>> : t \in BadTupleArgs}
    \cup {<<<<"nodes", Slash, "a">>, <<"po", Slash, "b">>, <<"pods", Slash, "a">>>>,
          <<<<"pods", Slash, "a">>, <<"pods", Slash>>>>,
          <<<<"pods", Slash, "a">>, <<"b">>>>}

\* the argument lists given with allowEmptySelector set
EmptySelectorArgLists ==
    {<<>>}
    \cup {<<t>> : t \in TypeArgs}
    \cup {<<<<"pods">>, <<"a">>>>, <<<<"pods", Slash, "a">>>>, <<<<"pods", Slash>>>>}

\* the argument lists given to ResourceTypeAndNameArgs
TypeAndNameLists ==
    { <<>>, <<<<"pods">>>>, <<<<"pods">>, <<"a">>>>, <<<<"nodes">>, <<"b">>>>,
      <<<<"bogus">>, <<"a">>>>, <<<<"pods", Comma, "po">>, <<"a">>>>,
      <<<<"pods">>, <<"a">>, <<"b">>>> }

DirectSelectors == {Everything, NilSelector}

Namespaces == {"", "ns"}

(***************************************************************************)
(* The state machine: configuration calls on one Builder, and Do.          *)
(***************************************************************************)
NoResult ==
    [singular |-> FALSE, err |-> NilErr, visitor |-> NilVisitor, sources |-> <<>>]

NoLog ==
    [evaluated |-> FALSE, branch |-> "", resolved |-> <<>>, clientReqs |-> <<>>,
     gets |-> <<>>]


\* SplitResourceArgument was not called
NoSplit == [arg |-> <<>>, out |-> <<>>, called |-> 0, before |-> <<>>]

\* no walk was made over the visitor of the last Result
NoWalk ==
    [visited |-> FALSE, bad |-> {}, attempted |-> <<>>, callbacks |-> <<>>,
     err |-> NilErr]
\* a recorded call: the method, its boolean argument and its other arguments
Call(op, flag, args) == [op |-> op, flag |-> flag, args |-> args]

\* the calls made on a Builder whose calls are recorded
OrderCalls ==
    {Call("FilenameParam", FALSE, <<paths>>) :
         paths \in {<<"f.json">>, <<"-">>, <<"missing">>}}
    \cup {Call("Path", FALSE, <<paths>>) :
              paths \in {<<"f.json">>, <<"d">>, <<"f.json", "g.json", "h.json">>}}
    \cup {Call("URL", FALSE, <<<<"http://u">>>>), Call("Stdin", FALSE, <<>>),
          Call("Stream", FALSE, <<<<"reader">>>>)}
    \cup {Call("ResourceTypes", FALSE, types) :
              types \in {<< <<"pods">> >>, << <<"nodes">> >>}}
    \cup {Call("SelectorParam", FALSE, <<<<s>>>>) : s \in SelectorStrings}
    \cup {Call("Selector", isNil, <<>>) : isNil \in BOOLEAN}
    \cup {Call("NamespaceParam", FALSE, <<<<ns>>>>) : ns \in Namespaces}
    \cup {Call("SelectAllParam", selectAll, <<>>) : selectAll \in BOOLEAN}
    \cup {Call("ResourceTypeOrNameArgs", TRUE, << <<"pods">> >>)}
    \cup {Call("ResourceTypeOrNameArgs", FALSE, args) :
              args \in { << <<"pods">> >>, << <<"pods">>, <<"a">> >>,
                         << <<"nodes", Slash, "a">> >>, << <<"pods", Slash, "a">> >>,
                         << <<"pods", Slash>> >> }}
    \cup {Call("ResourceTypeAndNameArgs", FALSE, args) :
              args \in { << <<"pods">> >>, << <<"pods">>, <<"a">> >> }}
    \cup {Call(op, FALSE, <<>>) :
              op \in {"DefaultNamespace", "RequireNamespace", "Flatten", "Latest",
                      "ContinueOnError", "SingleResourceType"}}

\* the Builder after the recorded call c on bb
Apply(bb, c) ==
    CASE c.op = "FilenameParam" -> FilenameParam(bb, c.args[1])
      [] c.op = "URL" -> URL(bb, [i \in 1..Len(c.args[1]) |-> [raw |-> c.args[1][i]]])
      [] c.op = "Stdin" -> Stdin(bb)
      [] c.op = "Stream" -> Stream(bb, c.args[1][1])
      [] c.op = "Path" -> Path(bb, c.args[1])
      [] c.op = "ResourceTypes" -> ResourceTypes(bb, c.args)
      [] c.op = "SelectorParam" -> SelectorParam(bb, c.args[1][1])
      [] c.op = "Selector" -> Selector(bb, IF c.flag THEN NilSelector ELSE Everything)
      [] c.op = "NamespaceParam" -> NamespaceParam(bb, c.args[1][1])
      [] c.op = "DefaultNamespace" -> DefaultNamespace(bb)
      [] c.op = "RequireNamespace" -> RequireNamespace(bb)
      [] c.op = "SelectAllParam" -> SelectAllParam(bb, c.flag)
      [] c.op = "ResourceTypeOrNameArgs" -> ResourceTypeOrNameArgs(bb, c.flag, c.args)
      [] c.op = "ResourceTypeAndNameArgs" -> ResourceTypeAndNameArgs(bb, c.args)
      [] c.op = "Flatten" -> Flatten(bb)
      [] c.op = "Latest" -> Latest(bb)
      [] c.op = "ContinueOnError" -> ContinueOnError(bb)
      [] c.op = "SingleResourceType" -> SingleResourceType(bb)

\* the Builder after the calls cs, in their order, on a fresh Builder
RECURSIVE Fold(_, _)
Fold(bb, cs) == IF cs = <<>> THEN bb ELSE Fold(Apply(bb, Head(cs)), Tail(cs))

Init ==
    /\ b = NewBuilder
    /\ result = NoResult
    /\ log = NoLog
    /\ pre = NewBuilder
    /\ ncalls = 0
    /\ calls = <<>>
    /\ track = FALSE
    /\ walk = NoWalk
    /\ split = NoSplit

\* a configuration call that leaves the Builder nb
Config(nb, c) ==
    /\ ncalls < (IF track THEN MaxHist ELSE MaxCalls)
    /\ track => (~log.evaluated /\ c \in OrderCalls)
    /\ b' = nb
    /\ ncalls' = ncalls + 1
    /\ calls' = IF track THEN Append(calls, c) ELSE calls
    /\ result' = NoResult
    /\ log' = NoLog
    /\ pre' = NewBuilder
    /\ walk' = NoWalk
    /\ UNCHANGED <<track, split>>

CallFilenameParam ==
    \E paths \in FilenameLists :
        Config(FilenameParam(b, paths), Call("FilenameParam", FALSE, <<paths>>))

CallURL ==
    \E urls \in URLLists :
        Config(URL(b, urls), Call("URL", FALSE, <<[i \in 1..Len(urls) |-> urls[i].raw]>>))

CallStdin == Config(Stdin(b), Call("Stdin", FALSE, <<>>))

CallStream == Config(Stream(b, "reader"), Call("Stream", FALSE, <<<<"reader">>>>))

CallPath ==
    \E paths \in PathLists :
        Config(Path(b, paths), Call("Path", FALSE, <<paths>>))

CallResourceTypes ==
    \E types \in TypeLists :
        Config(ResourceTypes(b, types), Call("ResourceTypes", FALSE, types))

CallSelectorParam ==
    \E s \in SelectorStrings :
        Config(SelectorParam(b, s), Call("SelectorParam", FALSE, <<<<s>>>>))

CallSelector ==
    \E sel \in DirectSelectors :
        Config(Selector(b, sel), Call("Selector", sel.isNil, <<>>))

CallNamespaceParam ==
    \E ns \in Namespaces :
        Config(NamespaceParam(b, ns), Call("NamespaceParam", FALSE, <<<<ns>>>>))

CallDefaultNamespace == Config(DefaultNamespace(b), Call("DefaultNamespace", FALSE, <<>>))

CallRequireNamespace == Config(RequireNamespace(b), Call("RequireNamespace", FALSE, <<>>))

CallSelectAllParam ==
    \E selectAll \in BOOLEAN :
        Config(SelectAllParam(b, selectAll), Call("SelectAllParam", selectAll, <<>>))

CallResourceTypeOrNameArgs ==
    \E allowEmptySelector \in BOOLEAN,
       args \in ArgLists :
        /\ allowEmptySelector => args \in EmptySelectorArgLists
        /\ Config(ResourceTypeOrNameArgs(b, allowEmptySelector, args),
                  Call("ResourceTypeOrNameArgs", allowEmptySelector, args))

CallResourceTypeAndNameArgs ==
    \E args \in TypeAndNameLists :
        Config(ResourceTypeAndNameArgs(b, args),
               Call("ResourceTypeAndNameArgs", FALSE, args))

CallFlatten == Config(Flatten(b), Call("Flatten", FALSE, <<>>))

CallLatest == Config(Latest(b), Call("Latest", FALSE, <<>>))

CallContinueOnError == Config(ContinueOnError(b), Call("ContinueOnError", FALSE, <<>>))

CallSingleResourceType ==
    Config(SingleResourceType(b), Call("SingleResourceType", FALSE, <<>>))

\* the orders in which the mapping table can be ranged over
Orders ==
    {o \in [1..Cardinality(TableKeys) -> TableKeys] : Range(o) = TableKeys}

\* the environment in which nothing fails
Calm == [clientFail |-> {}, getFail |-> {}, order |-> CHOOSE o \in Orders : TRUE]

\* the environments an evaluation of bb can tell apart: the failures of
\* the requests it makes when nothing fails, and the orders of the range
\* statement when the tuple branch asks for more than one client
Envs(bb) ==
    LET told(calm) ==
            [clientFail : SUBSET {r.key : r \in Range(calm.clientReqs)},
             getFail : SUBSET {g.name : g \in Range(calm.gets)},
             order : IF calm.branch = "tuple" /\ Len(calm.clientReqs) > 1
                     THEN Orders
                     ELSE {Calm.order}]
    IN told(visitorResult(bb, Calm))

CallDo ==
    \E env \in Envs(b) :
        LET returned(e) ==
                /\ result' = e.res
                /\ log' = [evaluated |-> TRUE, branch |-> e.branch,
                           resolved |-> e.resolved, clientReqs |-> e.clientReqs,
                           gets |-> e.gets]
                /\ pre' = b
                /\ b' = [b EXCEPT !.selector = e.selector]
                /\ walk' = NoWalk
                /\ UNCHANGED <<ncalls, calls, track, split>>
        IN returned(Do(b, env))

\* whether a source ignores the objects it does not recognize: the
\* IgnoreErrors the Builder gave it; Infos and selectors have none
Ignores(v) == "IgnoreErrors" \in DOMAIN v /\ v.IgnoreErrors

\* one source visited: a source that produces its items hands them to the
\* callback (one item, named by the place of the source); one that cannot
\* load them ignores them if it was told to and fails if not
SourceVisit(v, i, isBad) ==
    IF ~isBad THEN [items |-> <<i>>, err |-> NoError]
    ELSE IF Ignores(v) THEN [items |-> <<>>, err |-> NoError]
    ELSE [items |-> <<>>, err |-> Err("unable to load", <<i>>)]

\* VisitorList.Visit: the children in order, the first error ends the walk
\* and is returned
RECURSIVE VisitorListVisit(_, _, _, _)
VisitorListVisit(sources, i, bad, w) ==
    IF i > Len(sources) THEN w
    ELSE LET visited(r) ==
                 LET w1 == [w EXCEPT !.attempted = Append(@, i),
                                     !.callbacks = @ \o r.items]
                 IN IF r.err # NoError
                    THEN [w1 EXCEPT !.err = Single(r.err)]
                    ELSE VisitorListVisit(sources, i + 1, bad, w1)
         IN visited(SourceVisit(sources[i], i, i \in bad))

\* EagerVisitorList.Visit: every child in order, the errors collected and
\* returned as an aggregate
RECURSIVE EagerVisitorListVisit(_, _, _, _, _)
EagerVisitorListVisit(sources, i, bad, w, errs) ==
    IF i > Len(sources) THEN [w EXCEPT !.err = NewAggregate(errs)]
    ELSE LET visited(r) ==
                 EagerVisitorListVisit(
                     sources, i + 1, bad,
                     [w EXCEPT !.attempted = Append(@, i),
                               !.callbacks = @ \o r.items],
                     IF r.err # NoError THEN Append(errs, r.err) ELSE errs)
         IN visited(SourceVisit(sources[i], i, i \in bad))

\* Result.Visit with a callback that never fails; the decorators hand the
\* items and the errors of the list through
Visit(res, bad) ==
    LET start == [visited |-> TRUE, bad |-> bad, attempted |-> <<>>,
                  callbacks |-> <<>>, err |-> NilErr]
    IN IF res.visitor.list = "EagerVisitorList"
       THEN EagerVisitorListVisit(res.sources, 1, bad, start, <<>>)
       ELSE VisitorListVisit(res.sources, 1, bad, start)

\* the sets of sources that fail during one walk
BadSets(n) == {bad \in SUBSET (1..n) : Cardinality(bad) <= MaxBad}

\* the caller walks the visitor of the Result it was given, once
CallVisit ==
    /\ log.evaluated
    /\ result.err = NilErr
    /\ ~walk.visited
    /\ \E bad \in BadSets(Len(result.sources)) :
           walk' = Visit(result, bad)
    /\ UNCHANGED <<b, result, log, pre, ncalls, calls, track, split>>


Next ==
    \/ CallFilenameParam
    \/ CallURL
    \/ CallStdin
    \/ CallStream
    \/ CallPath
    \/ CallResourceTypes
    \/ CallSelectorParam
    \/ CallSelector
    \/ CallNamespaceParam
    \/ CallDefaultNamespace
    \/ CallRequireNamespace
    \/ CallSelectAllParam
    \/ CallResourceTypeOrNameArgs
    \/ CallResourceTypeAndNameArgs
    \/ CallFlatten
    \/ CallLatest
    \/ CallContinueOnError
    \/ CallSingleResourceType
    \/ CallDo
    \/ CallVisit

Spec == Init /\ [][Next]_vars

\* a fresh Builder whose configuration calls are recorded, up to its first
\* evaluation
InitOrder ==
    /\ b = NewBuilder
    /\ result = NoResult
    /\ log = NoLog
    /\ pre = NewBuilder
    /\ ncalls = 0
    /\ calls = <<>>
    /\ track = TRUE
    /\ walk = NoWalk
    /\ split = NoSplit

SpecOrder == InitOrder /\ [][Next]_vars

\* Do as a function of the accumulated state: the Builders it is applied
\* to are made by one call that says what to visit and the policy flags,
\* set before it or after it
AssemblySources ==
    {Call("Path", FALSE, <<<<"f.json">>>>), Call("Path", FALSE, <<<<"d">>>>),
     Call("Stdin", FALSE, <<>>),
     Call("ResourceTypeOrNameArgs", FALSE, << <<"nodes", Slash, "a">> >>),
     Call("ResourceTypeOrNameArgs", FALSE, << <<"nodes">>, <<"a">> >>),
     Call("ResourceTypeOrNameArgs", TRUE, << <<"nodes">> >>)}

AssemblyFlags ==
    <<"ContinueOnError", "Flatten", "Latest", "DefaultNamespace", "RequireNamespace">>

\* the calls of the flags of F, in the order of AssemblyFlags
FlagCalls(F) ==
    LET chosen == SelectSeq(AssemblyFlags, LAMBDA f : f \in F)
    IN [i \in 1..Len(chosen) |-> Call(chosen[i], FALSE, <<>>)]

AssemblyBuilders ==
    {Fold(NewBuilder, FlagCalls(F) \o <<src>>) :
         F \in SUBSET Range(AssemblyFlags), src \in AssemblySources}
    \cup {Fold(NewBuilder, <<src>> \o FlagCalls(F)) :
              F \in SUBSET Range(AssemblyFlags), src \in AssemblySources}

InitAssembly ==
    /\ b \in AssemblyBuilders
    /\ result = NoResult
    /\ log = NoLog
    /\ pre = NewBuilder
    /\ ncalls = MaxCalls
    /\ calls = <<>>
    /\ track = FALSE
    /\ walk = NoWalk
    /\ split = NoSplit

NextAssembly == CallDo

SpecAssembly == InitAssembly /\ [][NextAssembly]_vars

\* Do on the Builders made by calls that set the selector, the select-all
\* flag and the resource types, the calls being recorded
SelectCalls ==
    {Call("SelectAllParam", selectAll, <<>>) : selectAll \in BOOLEAN}
    \cup {Call("SelectorParam", FALSE, <<<<s>>>>) : s \in {"", "a=b"}}
    \cup {Call("Selector", isNil, <<>>) : isNil \in BOOLEAN}
    \cup {Call("ResourceTypes", FALSE, << <<"nodes">> >>),
          Call("ResourceTypeOrNameArgs", TRUE, << <<"nodes">> >>)}

SelectSeqs == UNION {[1..n -> SelectCalls] : n \in 0..MaxSelectCalls}

InitSelect ==
    /\ calls \in SelectSeqs
    /\ b = Fold(NewBuilder, calls)
    /\ result = NoResult
    /\ log = NoLog
    /\ pre = NewBuilder
    /\ ncalls = Len(calls)
    /\ track = TRUE
    /\ walk = NoWalk
    /\ split = NoSplit

SpecSelect == InitSelect /\ [][NextAssembly]_vars

\* SplitResourceArgument on its own: a caller gives it an argument, and
\* then gives it the comma join of what it returned
ArgTokens == {"p", "s", Comma}

SplitArgs == UNION {[1..n -> ArgTokens] : n \in 0..MaxArgLen}

InitSplit ==
    /\ b = NewBuilder
    /\ result = NoResult
    /\ log = NoLog
    /\ pre = NewBuilder
    /\ ncalls = 0
    /\ calls = <<>>
    /\ track = FALSE
    /\ walk = NoWalk
    /\ split \in {[NoSplit EXCEPT !.arg = a] : a \in SplitArgs}

CallSplitResourceArgument ==
    /\ split.called < 2
    /\ LET arg == IF split.called = 0 THEN split.arg ELSE Join(split.out, Comma)
       IN split' = [arg |-> arg, out |-> SplitResourceArgument(arg),
                    called |-> split.called + 1, before |-> split.out]
    /\ UNCHANGED <<b, result, log, pre, ncalls, calls, track, walk>>

NextSplit == CallSplitResourceArgument

SpecSplit == InitSplit /\ [][NextSplit]_vars

\* Do on the Builders made by one call of ResourceTypeOrNameArgs: one
\* argument of any form, alone or next to an argument of a known form
TupleArgTokens == {"pods", "a", Comma, Slash}

TupleArgStrings == UNION {[1..n -> TupleArgTokens] : n \in 0..MaxTupleArgLen}

OtherArgs == { <<"nodes", Slash, "a">>, <<"a">>, <<"pods", Slash>> }

TupleArgLists ==
    {<<s>> : s \in TupleArgStrings}
    \cup {<<s, t>> : s \in TupleArgStrings, t \in OtherArgs}
    \cup {<<t, s>> : s \in TupleArgStrings, t \in OtherArgs}

InitTuples ==
    /\ calls \in {<<Call("ResourceTypeOrNameArgs", allowEmptySelector, args)>> :
                      allowEmptySelector \in BOOLEAN, args \in TupleArgLists}
    /\ b = Fold(NewBuilder, calls)
    /\ result = NoResult
    /\ log = NoLog
    /\ pre = NewBuilder
    /\ ncalls = Len(calls)
    /\ track = TRUE
    /\ walk = NoWalk
    /\ split = NoSplit

SpecTuples == InitTuples /\ [][NextAssembly]_vars

(***************************************************************************)
(* Properties.  They speak of the state right after a Do: pre is the       *)
(* Builder that Do found, result and log what it returned and did.         *)
(***************************************************************************)
\* the four modes, as populated in a Builder
SelectorSet(bb) == bb.selectAll \/ ~bb.selector.isNil
TuplesGiven(bb) == bb.resourceTuples # <<>>
NamesGiven(bb) == bb.names # <<>>
SourcesGiven(bb) == bb.paths # <<>>

ModeCount(bb) ==
    (IF SelectorSet(bb) THEN 1 ELSE 0) + (IF TuplesGiven(bb) THEN 1 ELSE 0)
    + (IF NamesGiven(bb) THEN 1 ELSE 0) + (IF SourcesGiven(bb) THEN 1 ELSE 0)

\* the last step was an evaluation that made no call to the client mapper
\* and no fetch
NoNetwork == log.clientReqs = <<>> /\ log.gets = <<>>

\* C1: when no accumulation error was recorded and at least two of the four
\* modes (selector or select-all, tuples, names, path sources) are
\* populated, Do returns an error and asks for no client and fetches
\* nothing.
C1_MixedModesFail ==
    (log.evaluated /\ pre.errs = <<>> /\ ModeCount(pre) >= 2)
        => (result.err # NilErr /\ NoNetwork)

\* C1 witness: a Do on a Builder holding both tuples and names (with types
\* that resolve), and one holding three modes, has been evaluated.
C1_Witness ==
    /\ log.evaluated
    /\ pre.errs = <<>>
    /\ TuplesGiven(pre) /\ NamesGiven(pre) /\ ~SelectorSet(pre) /\ ~SourcesGiven(pre)
    /\ pre.resourceTuples[1].Resource = <<"pods">>
    /\ result.err # NilErr

\* C2: when a configuration call recorded an error, Do returns the
\* aggregate of the recorded errors in their order, no visitor, singular
\* false, and runs no mode branch: nothing is resolved, no client is asked
\* for, nothing is fetched; and no call removes or reorders the errors
\* recorded before it.
C2_ErrsState ==
    (log.evaluated /\ pre.errs # <<>>)
        => /\ result = [singular |-> FALSE,
                        err |-> [kind |-> "aggregate", errs |-> pre.errs],
                        visitor |-> NilVisitor, sources |-> <<>>]
           /\ log.branch = "errs"
           /\ log.resolved = <<>>
           /\ NoNetwork

C2_ErrsKept ==
    /\ Len(b'.errs) >= Len(b.errs)
    /\ SubSeq(b'.errs, 1, Len(b.errs)) = b.errs

C2_RecordedErrorsShortCircuit == []C2_ErrsState /\ [][C2_ErrsKept]_vars

\* C2 witness: a Do on a Builder with one recorded error and a tuple
\* configured besides it.
C2_Witness ==
    /\ log.evaluated
    /\ Len(pre.errs) = 1
    /\ TuplesGiven(pre)
    /\ result.err.kind = "aggregate"

\* what the registry answers for a resource string
Resolvable(r) ==
    /\ VersionAndKindForResource(r).ok
    /\ RESTMapping(VersionAndKindForResource(r).kind,
                   VersionAndKindForResource(r).version).ok

MappingOf(r) ==
    RESTMapping(VersionAndKindForResource(r).kind,
                VersionAndKindForResource(r).version).mapping

\* the modes an evaluation enters (no error recorded, no earlier branch
\* taken), and entered with nothing else configured that the branch rejects
SelectorMode(bb) == bb.errs = <<>> /\ SelectorSet(bb)
TupleMode(bb) == bb.errs = <<>> /\ ~SelectorSet(bb) /\ TuplesGiven(bb)
NameMode(bb) == bb.errs = <<>> /\ ~SelectorSet(bb) /\ ~TuplesGiven(bb) /\ NamesGiven(bb)
PathMode(bb) ==
    bb.errs = <<>> /\ ~SelectorSet(bb) /\ ~TuplesGiven(bb) /\ ~NamesGiven(bb)
    /\ SourcesGiven(bb)

CleanSelectorMode(bb) ==
    SelectorMode(bb) /\ ~NamesGiven(bb) /\ ~TuplesGiven(bb) /\ ~SourcesGiven(bb)
    /\ bb.resources # <<>>
CleanTupleMode(bb) == TupleMode(bb) /\ ~SourcesGiven(bb) /\ bb.resources = <<>>
CleanNameMode(bb) == NameMode(bb) /\ ~SourcesGiven(bb) /\ Len(bb.resources) = 1

TupleStrings(bb) == {t.Resource : t \in Range(bb.resourceTuples)}

SingleTypeErr == Single(Err("you may only specify a single resource type", <<>>))

\* the canonical resource names among the mappings of a set of strings
Canonical(strings) == {MappingOf(r).Resource : r \in strings}

\* C4 (as claimed): with SingleResourceType set and every given type
\* resolving, evaluation of bulk resource types (selector mode) and of
\* tuples fails with "you may only specify a single resource type" exactly
\* when more than one distinct canonical resource name is among the
\* mappings.
C4_SingleTypeCountsCanonical ==
    /\ (/\ log.evaluated /\ pre.singleResourceType /\ CleanSelectorMode(pre)
        /\ \A r \in Range(pre.resources) : Resolvable(r))
          => (result.err = SingleTypeErr
                  <=> Cardinality(Canonical(Range(pre.resources))) > 1)
    /\ (/\ log.evaluated /\ pre.singleResourceType /\ CleanTupleMode(pre)
        /\ \A r \in TupleStrings(pre) : Resolvable(r))
          => (result.err = SingleTypeErr
                  <=> Cardinality(Canonical(TupleStrings(pre))) > 1)

\* the tuple half of C4, which the code satisfies
C4_TuplesCountCanonical ==
    (/\ log.evaluated /\ pre.singleResourceType /\ CleanTupleMode(pre)
     /\ \A r \in TupleStrings(pre) : Resolvable(r))
      => (result.err = SingleTypeErr
              <=> Cardinality(Canonical(TupleStrings(pre))) > 1)

\* two tuples naming one canonical type by different strings were evaluated
\* with SingleResourceType set
C4_TuplesWitness ==
    /\ log.evaluated /\ pre.singleResourceType /\ CleanTupleMode(pre)
    /\ TupleStrings(pre) = {<<"pods">>, <<"po">>}
    /\ result.err # SingleTypeErr

\* C5 (as claimed): whenever evaluation enters tuple mode, the Result's
\* singular flag is true exactly when one tuple was given, on every return
\* path.
C5_TupleSingular ==
    (log.evaluated /\ TupleMode(pre))
        => (result.singular <=> Len(pre.resourceTuples) = 1)

\* C5 on every return path but the one taken when the client mapper fails
C5_TupleSingularButClientFailure ==
    (log.evaluated /\ TupleMode(pre) /\ \A i \in 1..Len(log.clientReqs) : log.clientReqs[i].ok)
        => (result.singular <=> Len(pre.resourceTuples) = 1)

NoDup(seq) == \A i, j \in 1..Len(seq) : i # j => seq[i] # seq[j]

ReqKeys(reqs) == [i \in 1..Len(reqs) |-> reqs[i].key]

AllOk(reqs) == \A i \in 1..Len(reqs) : reqs[i].ok

\* C6: in tuple mode the registry is asked at most once per tuple resource
\* string and never for a string already a key of the mapping table (an
\* earlier string or its canonical name), and for every tuple string unless
\* a resolution failed; the client mapper is asked at most once per
\* (version, canonical resource) key, and exactly once per key of the
\* tuples when the evaluation succeeds; a successful evaluation yields one
\* Info per tuple in input order with the tuple's name and mapping, and
\* Infos of one canonical resource share one client instance and one
\* mapping.
C6_TupleResolution ==
    (log.evaluated /\ CleanTupleMode(pre)) =>
        LET tuples == pre.resourceTuples
            res == log.resolved
            reqs == log.clientReqs
            items == result.sources
        IN /\ NoDup(res)
           /\ Range(res) \subseteq TupleStrings(pre)
           /\ \A i, j \in 1..Len(res) :
                  i < j => res[j] # MappingOf(res[i]).Resource
           /\ (\A r \in Range(res) : Resolvable(r))
                  => \A r \in TupleStrings(pre) :
                         r \in Range(res) \cup Canonical(Range(res))
           /\ NoDup(ReqKeys(reqs))
           /\ result.err = NilErr =>
                  /\ AllOk(reqs)
                  /\ Range(ReqKeys(reqs))
                         = {ClientKey(MappingOf(r)) : r \in TupleStrings(pre)}
                  /\ Len(items) = Len(tuples)
                  /\ \A i \in 1..Len(items) :
                         /\ items[i].kind = "Info"
                         /\ items[i].name = tuples[i].Name
                         /\ items[i].mapping = MappingOf(tuples[i].Resource)
                         /\ \E k \in 1..Len(reqs) :
                                /\ reqs[k].key = ClientKey(items[i].mapping)
                                /\ items[i].client = [id |-> k, key |-> reqs[k].key]
                  /\ \A i, j \in 1..Len(items) :
                         items[i].mapping.Resource = items[j].mapping.Resource
                             => /\ items[i].client = items[j].client
                                /\ items[i].mapping = items[j].mapping

\* C6 witness: three tuples over two canonical resources, one of them named
\* by two different strings of which the second is not resolved, were
\* evaluated without error.
C6_Witness ==
    /\ log.evaluated /\ CleanTupleMode(pre)
    /\ result.err = NilErr
    /\ Len(pre.resourceTuples) = 3
    /\ Cardinality(TupleStrings(pre)) = 3
    /\ Len(log.resolved) = 2
    /\ Len(log.clientReqs) = 2
    /\ Len(result.sources) = 3

\* the name branch reached its loop over the names: the type resolved, the
\* client was returned and the namespace is acceptable
NameLoopReached ==
    /\ log.evaluated /\ CleanNameMode(pre)
    /\ Resolvable(pre.resources[1])
    /\ Len(log.clientReqs) = 1 /\ AllOk(log.clientReqs)
    /\ ~(MappingOf(pre.resources[1]).Scope = RESTScopeNameNamespace /\ pre.namespace = "")

ResolutionErr(r) ==
    IF ~VersionAndKindForResource(r).ok
    THEN VersionAndKindForResource(r).err
    ELSE RESTMapping(VersionAndKindForResource(r).kind,
                     VersionAndKindForResource(r).version).err

\* C8: in name mode, when the single resource type does not resolve,
\* evaluation returns the resolution error and has asked for no client and
\* fetched nothing.
C8_NameUnresolved ==
    (log.evaluated /\ CleanNameMode(pre) /\ ~Resolvable(pre.resources[1]))
        => /\ result.err = Single(ResolutionErr(pre.resources[1]))
           /\ log.resolved = <<pre.resources[1]>>
           /\ NoNetwork

\* C8 witness: names were given for a type that has a kind but no REST
\* mapping.
C8_Witness ==
    /\ log.evaluated /\ CleanNameMode(pre)
    /\ pre.resources = << <<"ghost">> >>
    /\ result.err # NilErr

NamespaceErr ==
    Single(Err("namespace may not be empty when retrieving a resource by name", <<>>))

\* name mode or tuple mode entered with types that resolve (and pass the
\* single resource type check): the strings whose mappings are used
ResolvedStrings(bb) ==
    IF CleanNameMode(bb) /\ Resolvable(bb.resources[1])
    THEN {bb.resources[1]}
    ELSE IF /\ CleanTupleMode(bb)
            /\ \A r \in TupleStrings(bb) : Resolvable(r)
            /\ ~(bb.singleResourceType /\ Cardinality(Canonical(TupleStrings(bb))) > 1)
    THEN TupleStrings(bb)
    ELSE {}

\* some mapping used by the evaluation is namespace-scoped and the
\* configured namespace is empty
NamespaceMissing(bb) ==
    /\ bb.namespace = ""
    /\ \E r \in ResolvedStrings(bb) : MappingOf(r).Scope = RESTScopeNameNamespace

\* C9 (as claimed): in name mode and tuple mode, a namespace-scoped mapping
\* with an empty configured namespace makes evaluation fail with "namespace
\* may not be empty when retrieving a resource by name" before any client
\* was asked for and before any fetch.
C9_NamespaceBeforeClient ==
    (log.evaluated /\ NamespaceMissing(pre))
        => (result.err = NamespaceErr /\ NoNetwork)

\* C9 (amended): in name mode and tuple mode, a namespace-scoped mapping
\* with an empty configured namespace makes evaluation fail before any
\* fetch, after the clients were asked for: with the namespace error when
\* the client mapper returned every client, with the client mapper's error
\* otherwise.  Every Info made has the empty namespace when its mapping is
\* cluster-scoped and the configured namespace otherwise, and evaluations
\* that use only cluster-scoped mappings never fail with the namespace
\* error.
C9_NamespaceBeforeFetch ==
    /\ (log.evaluated /\ NamespaceMissing(pre))
          => /\ log.gets = <<>>
             /\ log.clientReqs # <<>>
             /\ result.err # NilErr
             /\ AllOk(log.clientReqs) <=> result.err = NamespaceErr
             /\ ~AllOk(log.clientReqs) =>
                    result.err = Single(Err("could not create a client",
                                            log.clientReqs[Len(log.clientReqs)].key))
    /\ (log.evaluated /\ ResolvedStrings(pre) # {})
          => /\ \A i \in 1..Len(result.sources) :
                    result.sources[i].namespace =
                        IF result.sources[i].mapping.Scope = RESTScopeNameNamespace
                        THEN pre.namespace ELSE ""
             /\ (\A r \in ResolvedStrings(pre) :
                     MappingOf(r).Scope # RESTScopeNameNamespace)
                    => result.err # NamespaceErr

\* C9 witness: a tuple of a namespace-scoped type was evaluated with an
\* empty namespace; the client was handed out and the namespace error
\* returned.
C9_Witness ==
    /\ log.evaluated /\ NamespaceMissing(pre)
    /\ CleanTupleMode(pre)
    /\ Len(log.clientReqs) = 1 /\ AllOk(log.clientReqs)
    /\ result.err = NamespaceErr

\* the cluster-scoped case of C9: a cluster-scoped tuple evaluated with a
\* namespace configured gives an Info with the empty namespace
C9_ClusterScopedWitness ==
    /\ log.evaluated /\ CleanTupleMode(pre)
    /\ pre.namespace = "ns"
    /\ result.err = NilErr
    /\ Len(result.sources) = 1
    /\ result.sources[1].namespace = ""

\* C10: whenever evaluation enters path mode, the Result's singular flag is
\* true exactly when there is one accumulated source and it is neither a
\* directory nor a stream, also on the error return taken when resource
\* types were given.
C10_PathSingular ==
    (log.evaluated /\ PathMode(pre))
        => (result.singular
                <=> /\ Len(pre.paths) = 1
                    /\ pre.paths[1].kind \notin {"DirectoryVisitor", "StreamVisitor"})

\* C10 witness: one file source and resource types besides it: the error
\* return, with singular true.
C10_Witness ==
    /\ log.evaluated /\ PathMode(pre)
    /\ pre.resources # <<>>
    /\ Len(pre.paths) = 1
    /\ result.err # NilErr
    /\ result.singular

\* path mode with a single stream source: singular is false
C10_StreamWitness ==
    /\ log.evaluated /\ PathMode(pre)
    /\ Len(pre.paths) = 1 /\ pre.paths[1].kind = "StreamVisitor"
    /\ ~result.singular

\* the permutations of 1..n, and a sequence rearranged by one
Perms(n) == {p \in [1..n -> 1..n] : \A i, j \in 1..n : i # j => p[i] # p[j]}

Permute(cs, p) == [i \in 1..Len(cs) |-> cs[p[i]]]

\* the environments the outcomes of two Builders are compared in: nothing
\* fails, every client request fails, every fetch fails
OrderEnvs ==
    {[clientFail |-> cf, getFail |-> gf, order |-> Calm.order] :
         cf \in {{}, ClientKeys}, gf \in {{}, NameArgs}}

\* the outcome of Do on bb: the branch taken, whether it failed, the
\* singular flag, and the error-ignoring setting of every source
Outcome(bb, env) ==
    LET e == Do(bb, env)
    IN [mode |-> e.branch, failed |-> e.res.err # NilErr,
        singular |-> e.res.singular, sources |-> Range(bb.paths)]

SameOutcome(b1, b2) == \A env \in OrderEnvs : Outcome(b1, env) = Outcome(b2, env)

\* the recorded calls are what made the Builder
CallsMakeBuilder == (track /\ ~log.evaluated) => b = Fold(NewBuilder, calls)

SourceOps == {"FilenameParam", "Path", "Stream", "Stdin"}

SelectorOp(c) ==
    \/ c.op \in {"SelectorParam", "Selector", "SelectAllParam"}
    \/ (c.op = "ResourceTypeOrNameArgs" /\ c.flag)

OrderMatters(c1, c2) ==
    \/ (c1.op = "ContinueOnError" /\ c2.op \in SourceOps)
    \/ (c2.op = "ContinueOnError" /\ c1.op \in SourceOps)
    \/ (SelectorOp(c1) /\ SelectorOp(c2))
    \/ (c1.op = "NamespaceParam" /\ c2.op = "NamespaceParam")

\* the permutation p keeps the order of every such pair of cs
KeepsOrder(cs, p) ==
    \A i, j \in 1..Len(cs) :
        (i < j /\ OrderMatters(cs[p[i]], cs[p[j]])) => p[i] < p[j]

StageCount(stages, S) == Cardinality({i \in DOMAIN stages : stages[i] \in S})

\* Do returned a pipeline
Returned == log.evaluated /\ result.err = NilErr

\* C11 (as claimed): in every pipeline returned by Do each item passes
\* through at most one flatten stage and at most one latest-refresh stage,
\* eager or lazy: Do adds neither when the mode branch already did.
C11_OneFlattenOneLatest ==
    Returned =>
        /\ StageCount(result.visitor.stages, {"FlattenListVisitor"}) <= 1
        /\ StageCount(result.visitor.stages, {"RetrieveLatest", "RetrieveLazy"}) <= 1

\* outside path mode no branch adds a stage, and the claim's bound holds
C11_OneStageEachOutsidePathMode ==
    (Returned /\ log.branch # "path") =>
        /\ StageCount(result.visitor.stages, {"FlattenListVisitor"}) <= 1
        /\ StageCount(result.visitor.stages, {"RetrieveLatest", "RetrieveLazy"}) <= 1

\* the place of a stage in the overlay of final assembly; the eager
\* RetrieveLatest of the path branch has none
Rank(stage) ==
    CASE stage = "FlattenListVisitor" -> 1
      [] stage = "SetNamespace" -> 2
      [] stage = "RequireNamespace" -> 3
      [] stage = "FilterNamespace" -> 4
      [] stage = "RetrieveLazy" -> 5
      [] OTHER -> 0

Has(stages, stage) == \E i \in DOMAIN stages : stages[i] = stage

\* C12: in every pipeline returned by Do the stages come in the order
\* flatten, namespace-default, namespace-require, namespace-filter,
\* latest-lazy, each present exactly when requested (the filter always);
\* and in path mode with Latest and Flatten set the eager RetrieveLatest
\* stage comes after a flatten stage.
C12_StageOrder ==
    Returned =>
        LET st == result.visitor.stages
        IN /\ \A i, j \in DOMAIN st :
                  (i < j /\ Rank(st[i]) # 0 /\ Rank(st[j]) # 0)
                      => /\ Rank(st[i]) <= Rank(st[j])
                         /\ Rank(st[i]) = Rank(st[j]) => Rank(st[i]) = 1
           /\ Has(st, "FlattenListVisitor") <=> pre.flatten
           /\ Has(st, "SetNamespace") <=> pre.defaultNamespace
           /\ Has(st, "RequireNamespace") <=> pre.requireNamespace
           /\ Has(st, "FilterNamespace")
           /\ Has(st, "RetrieveLazy") <=> pre.latest
           /\ (log.branch = "path" /\ pre.latest /\ pre.flatten) =>
                  \E i, j \in DOMAIN st :
                      /\ i < j
                      /\ st[i] = "FlattenListVisitor"
                      /\ st[j] = "RetrieveLatest"

\* C12 witness: a pipeline of path mode with every stage requested
C12_Witness ==
    /\ Returned /\ log.branch = "path"
    /\ pre.flatten /\ pre.latest /\ pre.defaultNamespace /\ pre.requireNamespace
    /\ Len(result.visitor.stages) = 7

\* C13 (as claimed): in every mode that produces a visitor the base
\* combinator over the sources is the eager list if ContinueOnError was
\* set on the Builder and the fail-fast list otherwise.
C13_CombinatorFollowsFlag ==
    Returned =>
        result.visitor.list =
            IF pre.continueOnError THEN "EagerVisitorList" ELSE "VisitorList"

\* the selector, tuple and path branches do follow the flag
C13_CombinatorFollowsFlagButNames ==
    (Returned /\ log.branch # "name") =>
        result.visitor.list =
            IF pre.continueOnError THEN "EagerVisitorList" ELSE "VisitorList"

\* the selector an evaluation of bb works with
EffectiveSelector(bb) == IF bb.selectAll THEN Everything ELSE bb.selector

\* C14: in selector mode with no names, tuples or sources configured,
\* evaluation fails with "at least one resource must be specified to use a
\* selector" when no resource type was given; when types were given it
\* returns, if every type resolves and every client is handed out (and the
\* single-type limit is kept), one selector visitor per given type in the
\* given order, each with the configured selector and with the configured
\* namespace if its mapping is namespace-scoped and the empty one if not;
\* singular is false.
C14_SelectorVisitors ==
    (log.evaluated /\ SelectorMode(pre)
     /\ ~NamesGiven(pre) /\ ~TuplesGiven(pre) /\ ~SourcesGiven(pre)) =>
        /\ ~result.singular
        /\ pre.resources = <<>> =>
               /\ result.err = Single(Err("at least one resource must be specified to use a selector", <<>>))
               /\ NoNetwork
        /\ (/\ pre.resources # <<>>
            /\ \A i \in DOMAIN pre.resources : Resolvable(pre.resources[i])
            /\ ~(pre.singleResourceType /\ Len(pre.resources) > 1)
            /\ AllOk(log.clientReqs)) => result.err = NilErr
        /\ (pre.resources # <<>> /\ result.err = NilErr) =>
               /\ Len(result.sources) = Len(pre.resources)
               /\ \A i \in DOMAIN pre.resources :
                      LET v == result.sources[i]
                          mapping == MappingOf(pre.resources[i])
                      IN /\ v.kind = "Selector"
                         /\ v.mapping = mapping
                         /\ v.selector = EffectiveSelector(pre)
                         /\ v.namespace =
                                IF mapping.Scope = RESTScopeNameNamespace
                                THEN pre.namespace ELSE ""

\* C14 witness: a selector over a namespace-scoped and a cluster-scoped
\* type, in a configured namespace
C14_Witness ==
    /\ Returned /\ log.branch = "selector"
    /\ pre.namespace = "ns"
    /\ Len(result.sources) = 2
    /\ result.sources[1].namespace = "ns"
    /\ result.sources[2].namespace = ""

\* C14 witness of the failure: a selector and no resource type
C14_NoTypeWitness ==
    /\ log.evaluated /\ SelectorMode(pre) /\ pre.resources = <<>>
    /\ ~NamesGiven(pre) /\ ~TuplesGiven(pre) /\ ~SourcesGiven(pre)
    /\ result.err # NilErr

\* the places 1..n that are not in bad, in their order
GoodPlaces(n, bad) == SelectSeq([i \in 1..n |-> i], LAMBDA i : i \notin bad)

\* a walk was made over a pipeline of path mode
PathWalk == walk.visited /\ log.evaluated /\ log.branch = "path"

\* C15: under fail-fast (ContinueOnError not set) a walk over path sources
\* of which one fails to produce its items invokes the callback for the
\* items of the sources before it only, attempts no source after it, and
\* returns that source's error unchanged; with three sources of which the
\* second fails, the callback runs for source 1 only.
C15_FailFastWalk ==
    (PathWalk /\ ~pre.continueOnError) =>
        /\ result.visitor.list = "VisitorList"
        /\ \A k \in 1..Len(result.sources) :
               walk.bad = {k} =>
                   /\ walk.attempted = [i \in 1..k |-> i]
                   /\ walk.callbacks = [i \in 1..(k - 1) |-> i]
                   /\ walk.err = Single(Err("unable to load", <<k>>))
        /\ walk.bad = {} =>
               /\ walk.callbacks = [i \in 1..Len(result.sources) |-> i]
               /\ walk.err = NilErr

\* C15 witness: three path sources, fail-fast, the second one failing
C15_Witness ==
    /\ PathWalk /\ ~pre.continueOnError
    /\ Len(result.sources) = 3
    /\ walk.bad = {2}
    /\ walk.callbacks = <<1>>
    /\ walk.err # NilErr

\* the recorded calls that add path or stream sources, and the recorded
\* calls of ContinueOnError
SourceCalls == {i \in DOMAIN calls : calls[i].op \in SourceOps}

ContinueOnErrorCalls == {i \in DOMAIN calls : calls[i].op = "ContinueOnError"}

\* ContinueOnError was set before every source was added, or after
SetBeforeSources ==
    /\ track /\ ContinueOnErrorCalls # {}
    /\ \E i \in ContinueOnErrorCalls : \A j \in SourceCalls : i < j

SetAfterSources ==
    /\ track /\ ContinueOnErrorCalls # {}
    /\ \A i \in ContinueOnErrorCalls : \A j \in SourceCalls : j < i

\* every source of the pipeline was added by Path, Stream, Stdin or
\* FilenameParam with a path; URL sources take no error-ignoring setting
NoURLSource == \A i \in DOMAIN result.sources : result.sources[i].kind # "URLVisitor"

\* C16 (as claimed): with ContinueOnError set before three path sources
\* are added, of which the second fails to parse, the walk attempts all
\* three, invokes the callback for sources 1 and 3 in order, and returns an
\* aggregate of exactly one error.
C16_EagerWalkOneError ==
    (PathWalk /\ SetBeforeSources /\ NoURLSource /\ Len(result.sources) = 3
     /\ walk.bad = {2}) =>
        /\ walk.attempted = <<1, 2, 3>>
        /\ walk.callbacks = <<1, 3>>
        /\ walk.err.kind = "aggregate"
        /\ Len(walk.err.errs) = 1

\* C16 (amended): under continue-on-error the walk attempts every path
\* source in order and invokes the callback for the items of the sources
\* that produced them, in source order.  It returns an aggregate of exactly
\* one error per failing source when ContinueOnError was set after the
\* sources were added, and no error when it was set before them: the
\* sources then ignore what they cannot parse.
C16_EagerWalkIgnoresOrReports ==
    (PathWalk /\ pre.continueOnError /\ NoURLSource) =>
        /\ result.visitor.list = "EagerVisitorList"
        /\ walk.attempted = [i \in 1..Len(result.sources) |-> i]
        /\ walk.callbacks = GoodPlaces(Len(result.sources), walk.bad)
        /\ SetBeforeSources => walk.err = NilErr
        /\ (SetAfterSources /\ walk.bad # {}) =>
               /\ walk.err.kind = "aggregate"
               /\ Len(walk.err.errs) = Cardinality(walk.bad)
               /\ \A i \in DOMAIN walk.err.errs :
                      walk.err.errs[i].arg[1] \in walk.bad

\* C16 witness: ContinueOnError, then three path sources, the second one
\* failing to parse
C16_Witness ==
    /\ PathWalk /\ SetBeforeSources
    /\ Len(result.sources) = 3
    /\ walk.bad = {2}
    /\ walk.callbacks = <<1, 3>>
    /\ walk.err = NilErr

\* C16 witness: three path sources, then ContinueOnError
C16_SetAfterWitness ==
    /\ PathWalk /\ SetAfterSources
    /\ Len(result.sources) = 3
    /\ walk.bad = {2}
    /\ walk.callbacks = <<1, 3>>
    /\ Len(walk.err.errs) = 1

\* the recorded calls SelectAllParam(true) and SelectorParam(s), s a valid
\* selector that is not empty
AllCalls == {i \in DOMAIN calls : calls[i].op = "SelectAllParam" /\ calls[i].flag}

SelectorParamCalls ==
    {i \in DOMAIN calls :
         /\ calls[i].op = "SelectorParam"
         /\ LabelsParse(calls[i].args[1][1]).ok
         /\ ~Empty(LabelsParse(calls[i].args[1][1]).selector)}

\* between the two calls, the earlier one is undone: the select-all flag is
\* cleared after SelectAllParam(true), the selector is replaced after
\* SelectorParam
Undone(i, j) ==
    \E k \in DOMAIN calls :
        /\ i < k /\ k < j
        /\ IF calls[i].op = "SelectAllParam"
           THEN calls[k].op = "SelectAllParam" /\ ~calls[k].flag
           ELSE calls[k].op = "Selector"

\* SelectorParam with the empty string changes nothing of the Builder
EmptySelectorParamNoOp == SelectorParam(b, "") = b

C17_NoOpWitness ==
    /\ track /\ ~log.evaluated
    /\ Len(calls) = 2
    /\ calls[1].op = "SelectAllParam" /\ calls[1].flag
    /\ calls[2].op = "SelectorParam" /\ calls[2].args[1][1] = ""
    /\ b.selectAll /\ b.errs = <<>> /\ b.selector.isNil

\* C18: when no selector and no select-all, no tuple, no name and no source
\* is configured and no error was recorded, Do fails with "you must provide
\* one or more resources by argument or filename", resolves no type, asks
\* for no client and fetches nothing; resource types, policy flags and a
\* namespace alone change nothing of this.
C18_NothingConfigured ==
    (log.evaluated /\ pre.errs = <<>> /\ ModeCount(pre) = 0) =>
        /\ result.err = Single(Err("you must provide one or more resources by argument or filename", <<>>))
        /\ result.visitor = NilVisitor
        /\ log.branch = "none"
        /\ log.resolved = <<>>
        /\ NoNetwork

\* C18 witness: a Builder holding only resource types has been evaluated
C18_Witness ==
    /\ log.evaluated
    /\ pre.errs = <<>> /\ ModeCount(pre) = 0
    /\ pre.resources # <<>>
    /\ result.err = Single(Err("you must provide one or more resources by argument or filename", <<>>))

\* C18 witness: a Builder holding only a policy flag and a namespace has
\* been evaluated
C18_FlagsWitness ==
    /\ log.evaluated
    /\ pre.errs = <<>> /\ ModeCount(pre) = 0
    /\ pre.resources = <<>>
    /\ pre.continueOnError /\ pre.namespace # NewBuilder.namespace
    /\ result.err # NilErr

\* the places of a list of strings that hold the first occurrence of their
\* string
FirstPlaces(segs) ==
    {i \in DOMAIN segs : \A j \in 1..(i - 1) : segs[j] # segs[i]}

\* out is the strings of segs at the given places, in the order of the
\* places
PickedAt(out, segs, places) ==
    /\ Len(out) = Cardinality(places)
    /\ \A k \in DOMAIN out :
           \E i \in places :
               /\ out[k] = segs[i]
               /\ Cardinality({j \in places : j < i}) = k - 1

\* C19: SplitResourceArgument returns the comma-separated segments of its
\* argument with every repeated segment removed, the first occurrences in
\* their order: no duplicates, a subsequence of the split argument holding
\* every distinct segment, never empty; and given the comma join of what it
\* returned it returns the same.
C19_SplitResourceArgument ==
    /\ split.called >= 1 =>
           LET segs == Split(split.arg, Comma)
           IN /\ \A i, j \in DOMAIN split.out :
                     split.out[i] = split.out[j] => i = j
              /\ PickedAt(split.out, segs, FirstPlaces(segs))
              /\ Range(split.out) = Range(segs)
              /\ split.out # <<>>
              /\ \A k \in DOMAIN split.out : ~Contains(split.out[k], Comma)
    /\ split.called = 2 =>
           /\ split.arg = Join(split.before, Comma)
           /\ split.out = split.before

\* C19 witness: "p,s,p" gave ["p","s"]
C19_Witness ==
    /\ split.called = 1
    /\ split.arg = <<"p", Comma, "s", Comma, "p">>
    /\ split.out = << <<"p">>, <<"s">> >>

\* C19 witness: the comma join "p,s" of that gave ["p","s"] again
C19_JoinWitness ==
    /\ split.called = 2
    /\ split.arg = <<"p", Comma, "s">>
    /\ split.before = << <<"p">>, <<"s">> >>
    /\ split.out = split.before

\* C19 witness: the empty argument gave one empty string
C19_EmptyWitness ==
    /\ split.called = 1
    /\ split.arg = <<>>
    /\ split.out = << <<>> >>

\* what the claim compares of two evaluations: mode, error, singular flag
ModeErrSingular(e) == [mode |-> e.branch, err |-> e.res.err, singular |-> e.res.singular]

\* Do on the Builder a Do has left gives what Do gave on the Builder it
\* found, whatever the client mapper and the server answer
DoAgainSame ==
    log.evaluated =>
        \A env \in Envs(pre) :
            ModeErrSingular(Do(b, env)) = ModeErrSingular(Do(pre, env))

\* C20 (as claimed): Do leaves every accumulated field of the Builder
\* unchanged, so that Do called again gives the same mode, error and
\* singular flag, and a configuration call made after a Do has the effect
\* it has without that Do.
C20_DoLeavesBuilder ==
    /\ log.evaluated => b = pre
    /\ DoAgainSame
    /\ log.evaluated => \A c \in SelectCalls : Apply(b, c) = Apply(pre, c)

\* C20, what holds: Do changes the selector of a Builder with select-all
\* set and no recorded error to the selector of everything, and nothing
\* else; Do called again gives the same mode, error and singular flag.
C20_DoStoresSelectorOnly ==
    /\ log.evaluated =>
           b = [pre EXCEPT !.selector = IF pre.errs = <<>> /\ pre.selectAll
                                        THEN Everything ELSE @]
    /\ DoAgainSame

\* C20: SelectAllParam(true) and ResourceTypes were called and Do returned
\* a visitor; SelectAllParam(true) now records an error, which it does not
\* on the Builder that Do found
C20_Witness ==
    /\ log.evaluated /\ result.err = NilErr
    /\ pre.selectAll /\ pre.selector.isNil
    /\ ~b.selector.isNil
    /\ SelectAllParam(pre, TRUE).errs = <<>>
    /\ SelectAllParam(b, TRUE).errs # <<>>

\* the number of slashes of an argument
Slashes(arg) == Cardinality({i \in DOMAIN arg : arg[i] = Slash})

\* the arguments of the recorded call of ResourceTypeOrNameArgs
GivenArgs == calls[1].args

\* some but not all of the arguments contain a slash
SomeNotAll(args) ==
    /\ \E i \in DOMAIN args : Contains(args[i], Slash)
    /\ \E i \in DOMAIN args : ~Contains(args[i], Slash)

\* an argument in resource/name form with more than one slash, an empty
\* part, or more than one resource
Malformed(arg) ==
    \/ Slashes(arg) > 1
    \/ /\ Slashes(arg) = 1
       /\ LET seg == Split(arg, Slash)
          IN \/ seg[1] = <<>>
             \/ seg[2] = <<>>
             \/ Cardinality(Range(Split(seg[1], Comma))) > 1

\* a call of ResourceTypeOrNameArgs with such arguments records an error,
\* and Do returns the recorded errors without resolving anything
BadArgsRecorded ==
    (track /\ Len(calls) = 1 /\ calls[1].op = "ResourceTypeOrNameArgs"
     /\ (SomeNotAll(GivenArgs) \/ \E i \in DOMAIN GivenArgs : Malformed(GivenArgs[i]))) =>
        /\ b.errs # <<>>
        /\ log.evaluated => (result.err.kind = "aggregate" /\ log.resolved = <<>>)

\* C21 (as claimed): every tuple stored by ResourceTypeOrNameArgs has a
\* name that is not empty and a resource that is one resource type string,
\* not empty, holding no comma and no slash; and a call whose arguments are
\* malformed records an error, so that its tuples are never evaluated.
C21_TuplesWellFormed ==
    /\ \A i \in DOMAIN b.resourceTuples :
           /\ Len(b.resourceTuples[i].Name) > 0
           /\ Len(b.resourceTuples[i].Resource) > 0
           /\ ~Contains(b.resourceTuples[i].Resource, Comma)
           /\ ~Contains(b.resourceTuples[i].Resource, Slash)
    /\ BadArgsRecorded

\* C21, what holds: every stored tuple has a name that is not empty and
\* holds no slash, and a resource that is not empty, holds no slash, and
\* whose comma-separated segments are all the same string (which may be
\* the empty one); and a call whose arguments are malformed records an
\* error.
C21_TuplesOneDistinctSegment ==
    /\ \A i \in DOMAIN b.resourceTuples :
           /\ Len(b.resourceTuples[i].Name) > 0
           /\ ~Contains(b.resourceTuples[i].Name, Slash)
           /\ Len(b.resourceTuples[i].Resource) > 0
           /\ ~Contains(b.resourceTuples[i].Resource, Slash)
           /\ Cardinality(Range(Split(b.resourceTuples[i].Resource, Comma))) = 1
    /\ BadArgsRecorded

\* C21: the argument "pods,pods/a" was stored as a tuple of the resource
\* "pods,pods" with no error recorded, and Do went on to resolve it
C21_Witness ==
    /\ track /\ log.evaluated
    /\ GivenArgs = << <<"pods", Comma, "pods", Slash, "a">> >>
    /\ pre.errs = <<>>
    /\ pre.resourceTuples = <<ResourceTuple(<<"pods", Comma, "pods">>, <<"a">>)>>
    /\ log.branch = "tuple"

\* C21: a call with a malformed second argument kept the tuple of its
\* first argument and recorded an error
C21_BadArgsWitness ==
    /\ track /\ log.evaluated
    /\ GivenArgs = << <<"nodes", Slash, "a">>, <<"pods", Comma, "a", Slash, "a">> >>
    /\ pre.resourceTuples = <<ResourceTuple(<<"nodes">>, <<"a">>)>>
    /\ result.err.kind = "aggregate"

====
